---- MODULE Spec2Model ----
(***************************************************************************)
(* photoschronos: the persistent exiftool session (src/src/exif.py) and    *)
(* the classification pipeline (src/src/phockup.py) as state machines.     *)
(*                                                                         *)
(* Part I   the metadata session: _ExiftoolSession.fetch, Exif.data and    *)
(*          the worker process at the other end of the pipes.              *)
(* Part II  the framing of a path for the worker and for the shell.        *)
(* Part III the run: walk_directory, process_file, rm_subdirs.             *)
(* Part IV  the name and the directory of one file, the date window.       *)
(* Part V   the date of a file (src/src/date.py).                          *)
(* Part VI  the one session of the process: _get_persistent_session.       *)
(* Part VII a primary file and its companions: process_sidecars.           *)
(***************************************************************************)
EXTENDS Integers, Sequences, FiniteSets, TLC

(***************************************************************************)
(* Part I: the metadata session                                            *)
(***************************************************************************)

\* Bounds of the session model.
NumThreads == 2
MaxCalls == 2

Threads == 1..NumThreads
SFiles == {"F1", "F2"}
None == "None"
NoThread == 0

VARIABLES
    process,      \* self._process: "none" (Popen raised OSError) or "popen"
    worker,       \* the exiftool process: "alive", "hung" (alive, silent), "dead"
    lock,         \* self._lock: the thread holding it, or NoThread
    tokenCtr,     \* self._token
    stdin,        \* request frames written and not yet read by the worker
    stdout,       \* lines the worker printed and fetch has not yet read
    wOut,         \* lines the worker still has to print for the frame it took
    seg,          \* history: the lines printed since the last completion token
    segAt,        \* history, per thread: the lines printed between the previous
                  \* token and the token of this thread's frame
    nCalls,       \* number of Exif.data calls started
    pc,           \* per thread: position inside Exif.data / fetch
    file,         \* per thread: the file asked for
    token,        \* per thread: the number in the completion token of its frame
    chunks,       \* per thread: the lines accumulated by fetch
    sawToken,     \* per thread: the read loop ended by the break on the token
    deadEarly,    \* per thread: the worker died before printing this frame's token
    fetchResult,  \* per thread: what fetch returned
    oneShots,     \* per thread: one-shot invocations made by this call
    fbOutcome,    \* per thread: what the one-shot invocation did
    dataResult    \* per thread: what Exif.data returned

VARIABLES
    qFs,          \* part II: the paths at which a file exists
    qName,        \* part II: the file name given to Exif
    qPc,          \* part II: position inside Exif.data
    qFetch,       \* part II: what fetch returned
    qResult       \* part II: what Exif.data returned

quoteVars == <<qFs, qName, qPc, qFetch, qResult>>

VARIABLES
    opt,          \* part III: the options of the run (self.dry_run, self.move, ...)
    phase,        \* part III: "init", "walk", "done" or "aborted"
    queue,        \* part III: the files the walk listed and has not handed out
    srcFs,        \* part III: input tree, per primary file: its record or Absent
    sideFs,       \* part III: input tree, per primary file: its .xmp exists
    dstFs,        \* part III: output tree, per destination path: record or Absent
    dstSide,      \* part III: output tree: the destination paths that have an .xmp
    dirs,         \* part III: the directories that exist
    counters,     \* part III: files_processed, duplicates_found, ...
    wpc,          \* part III, per worker: position inside process_file
    wfile,        \* part III, per worker: filename
    wname,        \* part III, per worker: target_file_name
    wsuffix,      \* part III, per worker: suffix
    wstat,        \* part III, per worker: source_stats, target_stats
    wreg,         \* part III, per worker: the counter value read by +=
    wctr,         \* part III, per worker: the counter being incremented
    wafter,       \* part III, per worker: where process_file goes on after +=
    raised,       \* part III: an exception left process_file
    vanishLeft,   \* part III: deletions the environment may still make
    fsInit,       \* history: the filesystem before the run
    clobbered,    \* history: a primary was transferred onto an existing file
    placed,       \* history, per destination path: the inputs transferred to it
    passedFinal,  \* history: times process_file passed files_processed += 1
    started,      \* history: the files process_file was called with
    vanished,     \* history: the input files another program deleted
    planned,      \* history: the (input file, destination path) pairs computed
    walker        \* part III: the main thread inside walk_directory: the files
                  \* executor.map has not submitted yet, whether a
                  \* KeyboardInterrupt was caught, and (history) the files
                  \* that had started when it arrived

runVars == <<opt, phase, queue, srcFs, sideFs, dstFs, dstSide, dirs, counters, wpc,
             wfile, wname, wsuffix, wstat, wreg, wctr, wafter, raised, vanishLeft,
             fsInit, clobbered, placed, passedFinal, started, vanished, planned,
             walker>>

VARIABLES
    nCfg,         \* part IV: output_prefix, output_suffix, no_date_dir, dir_format,
                  \* skip_unknown, original_filenames
    nFile,        \* part IV: the file: its name, what exiftool and Date say of it
    nPc,          \* part IV: position inside process_file
    nOut,         \* part IV: output and target_file_name
    nUnknown      \* part IV: self.unknown_found

namingVars == <<nCfg, nFile, nPc, nOut, nUnknown>>

VARIABLES
    dExif,        \* part V: the metadata record, per field name
    dName,        \* part V: self.filename: "absent", or whether it matches the
                  \* date pattern ("match", "nomatch"), or matches it with
                  \* digits that are no calendar date ("invalid")
    dTimestamp,   \* part V: the timestamp argument of from_exif
    dPc,          \* part V: position inside from_exif
    dParsed,      \* part V: parsed_date
    dResult       \* part V: what from_exif returned

dateVars == <<dExif, dName, dTimestamp, dPc, dParsed, dResult>>

VARIABLES
    gSession,     \* part VI: _persistent_session: NoSession or the instance
    gLock,        \* part VI: _session_lock: the thread holding it, or NoThread
    gCreated,     \* part VI: number of _ExiftoolSession objects constructed
    gThread       \* part VI, per thread: position inside
                  \* _get_persistent_session, calls made, the instance it
                  \* constructed, the instance it was returned

singletonVars == <<gSession, gLock, gCreated, gThread>>

VARIABLES
    cOpt,         \* part VII: move, link, dry_run, and whether a.mov has a date
    cIn,          \* part VII: the file names present in the input directory
    cOut,         \* part VII: the files of the output tree: directory, name, and
                  \* the input file each is a copy of ("other": none of them)
    cQueue,       \* part VII: the names _iter_files has still to yield
    cPc,          \* part VII: position inside process_file / process_sidecars
    cCur,         \* part VII: filename, output, target_file_name, suffix and
                  \* the candidates process_sidecars has still to look at
    cLog          \* history: the transfers made: source, destination, role,
                  \* and the primary (source, destination name) it was made for

companionVars == <<cOpt, cIn, cOut, cQueue, cPc, cCur, cLog>>

extraVars == <<singletonVars, companionVars>>

otherVars == <<namingVars, dateVars, extraVars>>

nonSessionVars == <<quoteVars, runVars, otherVars>>

sessionVars == <<process, worker, lock, tokenCtr, stdin, stdout, wOut, seg, segAt,
                 nCalls, pc, file, token, chunks, sawToken, deadEarly,
                 fetchResult, oneShots, fbOutcome, dataResult>>

\* One line of the worker's stdout. req is the frame the worker printed it for.
Line(kind, f, req) == [kind |-> kind, file |-> f, req |-> req]
TokenLine(n) == Line("tok", "-", n)

\* The three shapes of a reply: the record of the file (two lines of JSON),
\* nothing at all (exiftool found no file), or text that is no JSON.
RecordLines(f, req) == <<Line("open", f, req), Line("close", "-", req)>>
JunkLines(f, req) == <<Line("junk", "-", req)>>
Replies(f, req) == {RecordLines(f, req), JunkLines(f, req), <<>>}

\* json.loads(''.join(chunks).strip())[0] with its two early returns.
ParseChunks(c) ==
    IF c = <<>> THEN None
    ELSE IF Len(c) = 2 /\ c[1].kind = "open" /\ c[2].kind = "close" THEN c[1].file
    ELSE None

\* A session whose lock lets every caller in.
LockUngated == TRUE

\* with self._lock: entry is possible when nobody holds the lock.
LockAvailable == lock = NoThread

SessionInit ==
    /\ process \in {"none", "popen"}
    /\ worker = IF process = "popen" THEN "alive" ELSE "dead"
    /\ lock = NoThread
    /\ tokenCtr = 0
    /\ stdin = <<>>
    /\ stdout = <<>>
    /\ wOut = <<>>
    /\ seg = <<>>
    /\ segAt = [t \in Threads |-> <<>>]
    /\ nCalls = 0
    /\ pc = [t \in Threads |-> "idle"]
    /\ file = [t \in Threads |-> "F1"]
    /\ token = [t \in Threads |-> 0]
    /\ chunks = [t \in Threads |-> <<>>]
    /\ sawToken = [t \in Threads |-> FALSE]
    /\ deadEarly = [t \in Threads |-> FALSE]
    /\ fetchResult = [t \in Threads |-> None]
    /\ oneShots = [t \in Threads |-> 0]
    /\ fbOutcome = [t \in Threads |-> "-"]
    /\ dataResult = [t \in Threads |-> None]

\* Exif.data -> _data_from_session -> fetch, up to the first test of fetch.
Data_Start(t) ==
    /\ pc[t] = "idle"
    /\ nCalls < MaxCalls
    /\ nCalls' = nCalls + 1
    /\ \E f \in SFiles : file' = [file EXCEPT ![t] = f]
    /\ pc' = [pc EXCEPT ![t] = IF process = "none" THEN "fallback" ELSE "acquire"]
    /\ UNCHANGED <<process, worker, lock, tokenCtr, stdin, stdout, wOut, seg, segAt,
                   token, chunks, sawToken, deadEarly, fetchResult, oneShots,
                   fbOutcome, dataResult>>
    /\ UNCHANGED nonSessionVars

\* with self._lock: self._token += 1; token = ...
Fetch_Acquire(t) ==
    /\ pc[t] = "acquire"
    /\ LockAvailable
    /\ lock' = t
    /\ tokenCtr' = tokenCtr + 1
    /\ token' = [token EXCEPT ![t] = tokenCtr + 1]
    /\ pc' = [pc EXCEPT ![t] = "write"]
    /\ UNCHANGED <<process, worker, stdin, stdout, wOut, seg, segAt, nCalls, file,
                   chunks, sawToken, deadEarly, fetchResult, oneShots, fbOutcome,
                   dataResult>>
    /\ UNCHANGED nonSessionVars

\* stdin.write(payload); stdin.flush(): BrokenPipeError when the reader is gone.
Fetch_Write(t) ==
    /\ pc[t] = "write"
    /\ IF worker = "dead"
       THEN /\ lock' = IF lock = t THEN NoThread ELSE lock
            /\ deadEarly' = [deadEarly EXCEPT ![t] = TRUE]
            /\ pc' = [pc EXCEPT ![t] = "fallback"]
            /\ UNCHANGED stdin
       ELSE /\ stdin' = Append(stdin, [file |-> file[t], token |-> token[t]])
            /\ pc' = [pc EXCEPT ![t] = "read"]
            /\ UNCHANGED <<lock, deadEarly>>
    /\ UNCHANGED <<process, worker, tokenCtr, stdout, wOut, seg, segAt, nCalls, file,
                   token, chunks, sawToken, fetchResult, oneShots, fbOutcome,
                   dataResult>>
    /\ UNCHANGED nonSessionVars

\* One iteration of: for line in self._process.stdout
Fetch_ReadLine(t) ==
    /\ pc[t] = "read"
    /\ stdout # <<>>
    /\ stdout' = Tail(stdout)
    /\ IF Head(stdout) = TokenLine(token[t])
       THEN /\ sawToken' = [sawToken EXCEPT ![t] = TRUE]
            /\ lock' = IF lock = t THEN NoThread ELSE lock
            /\ pc' = [pc EXCEPT ![t] = "parse"]
            /\ UNCHANGED chunks
       ELSE /\ chunks' = [chunks EXCEPT ![t] = Append(chunks[t], Head(stdout))]
            /\ UNCHANGED <<sawToken, lock, pc>>
    /\ UNCHANGED <<process, worker, tokenCtr, stdin, wOut, seg, segAt, nCalls, file,
                   token, deadEarly, fetchResult, oneShots, fbOutcome, dataResult>>
    /\ UNCHANGED nonSessionVars

\* The for loop ends without the break: the worker's stdout reached end of file.
Fetch_ReadEOF(t) ==
    /\ pc[t] = "read"
    /\ stdout = <<>>
    /\ worker = "dead"
    /\ lock' = IF lock = t THEN NoThread ELSE lock
    /\ deadEarly' = [deadEarly EXCEPT ![t] = TRUE]
    /\ pc' = [pc EXCEPT ![t] = "parse"]
    /\ UNCHANGED <<process, worker, tokenCtr, stdin, stdout, wOut, seg, segAt, nCalls,
                   file, token, chunks, sawToken, fetchResult, oneShots, fbOutcome,
                   dataResult>>
    /\ UNCHANGED nonSessionVars

\* data = ''.join(chunks).strip() ... return; then Exif.data's test of the result.
Fetch_Parse(t) ==
    /\ pc[t] = "parse"
    /\ LET r == ParseChunks(chunks[t]) IN
       /\ fetchResult' = [fetchResult EXCEPT ![t] = r]
       /\ IF r # None
          THEN /\ dataResult' = [dataResult EXCEPT ![t] = r]
               /\ pc' = [pc EXCEPT ![t] = "done"]
          ELSE /\ pc' = [pc EXCEPT ![t] = "fallback"]
               /\ UNCHANGED dataResult
    /\ UNCHANGED <<process, worker, lock, tokenCtr, stdin, stdout, wOut, seg, segAt,
                   nCalls, file, token, chunks, sawToken, deadEarly, oneShots,
                   fbOutcome>>
    /\ UNCHANGED nonSessionVars

\* What the one-shot command can do: print the record, exit non-zero
\* (CalledProcessError), print bytes that are no UTF-8 (UnicodeDecodeError), print
\* text that is no JSON (JSONDecodeError), or print the empty list (IndexError).
FallbackOutcomes == {"record", "exit_nonzero", "undecodable", "unparsable", "emptylist"}

\* A handler that forgets json.JSONDecodeError.
Caught_NoJSONError == {"exit_nonzero", "undecodable"}

\* except (CalledProcessError, UnicodeDecodeError, json.JSONDecodeError)
Caught == {"exit_nonzero", "undecodable", "unparsable"}

\* Exif._data_fallback
Data_Fallback(t) ==
    /\ pc[t] = "fallback"
    /\ \E o \in FallbackOutcomes :
        /\ fbOutcome' = [fbOutcome EXCEPT ![t] = o]
        /\ oneShots' = [oneShots EXCEPT ![t] = oneShots[t] + 1]
        /\ IF o = "record"
           THEN /\ dataResult' = [dataResult EXCEPT ![t] = file[t]]
                /\ pc' = [pc EXCEPT ![t] = "done"]
           ELSE IF o \in Caught
           THEN /\ dataResult' = [dataResult EXCEPT ![t] = None]
                /\ pc' = [pc EXCEPT ![t] = "done"]
           ELSE /\ pc' = [pc EXCEPT ![t] = "raised"]
                /\ UNCHANGED dataResult
    /\ UNCHANGED <<process, worker, lock, tokenCtr, stdin, stdout, wOut, seg, segAt,
                   nCalls, file, token, chunks, sawToken, deadEarly, fetchResult>>
    /\ UNCHANGED nonSessionVars

\* The caller has its answer; the thread is free for the next file.
Data_Return(t) ==
    /\ pc[t] \in {"done", "raised"}
    /\ pc' = [pc EXCEPT ![t] = "idle"]
    /\ file' = [file EXCEPT ![t] = "F1"]
    /\ token' = [token EXCEPT ![t] = 0]
    /\ chunks' = [chunks EXCEPT ![t] = <<>>]
    /\ sawToken' = [sawToken EXCEPT ![t] = FALSE]
    /\ deadEarly' = [deadEarly EXCEPT ![t] = FALSE]
    /\ fetchResult' = [fetchResult EXCEPT ![t] = None]
    /\ oneShots' = [oneShots EXCEPT ![t] = 0]
    /\ fbOutcome' = [fbOutcome EXCEPT ![t] = "-"]
    /\ dataResult' = [dataResult EXCEPT ![t] = None]
    /\ segAt' = [segAt EXCEPT ![t] = <<>>]
    /\ UNCHANGED <<process, worker, lock, tokenCtr, stdin, stdout, wOut, seg, nCalls>>
    /\ UNCHANGED nonSessionVars

\* exiftool -stay_open reads one frame (up to -execute) from its stdin.
Worker_Take ==
    /\ worker = "alive"
    /\ wOut = <<>>
    /\ stdin # <<>>
    /\ stdin' = Tail(stdin)
    /\ \E reply \in Replies(Head(stdin).file, Head(stdin).token) :
        wOut' = reply \o <<TokenLine(Head(stdin).token)>>
    /\ UNCHANGED <<process, worker, lock, tokenCtr, stdout, seg, segAt, nCalls, pc,
                   file, token, chunks, sawToken, deadEarly, fetchResult, oneShots,
                   fbOutcome, dataResult>>
    /\ UNCHANGED nonSessionVars

\* exiftool prints the next line of its reply; -echo3 prints the token last.
Worker_Emit ==
    /\ worker = "alive"
    /\ wOut # <<>>
    /\ stdout' = Append(stdout, Head(wOut))
    /\ IF Head(wOut).kind = "tok"
       THEN /\ seg' = <<>>
            /\ segAt' = [t \in Threads |->
                            IF pc[t] = "read" /\ token[t] = Head(wOut).req
                            THEN seg ELSE segAt[t]]
       ELSE /\ seg' = Append(seg, Head(wOut))
            /\ UNCHANGED segAt
    /\ wOut' = Tail(wOut)
    /\ UNCHANGED <<process, worker, lock, tokenCtr, stdin, nCalls, pc, file, token,
                   chunks, sawToken, deadEarly, fetchResult, oneShots, fbOutcome,
                   dataResult>>
    /\ UNCHANGED nonSessionVars

\* The worker is killed or crashes: its pipes close, what it printed stays readable.
Worker_Die ==
    /\ worker \in {"alive", "hung"}
    /\ worker' = "dead"
    /\ wOut' = <<>>
    /\ UNCHANGED <<process, lock, tokenCtr, stdin, stdout, seg, segAt, nCalls, pc, file,
                   token, chunks, sawToken, deadEarly, fetchResult, oneShots,
                   fbOutcome, dataResult>>
    /\ UNCHANGED nonSessionVars

\* The worker stays alive and prints nothing more.
Worker_Hang ==
    /\ worker = "alive"
    /\ worker' = "hung"
    /\ UNCHANGED <<process, lock, tokenCtr, stdin, stdout, wOut, seg, segAt, nCalls, pc,
                   file, token, chunks, sawToken, deadEarly, fetchResult, oneShots,
                   fbOutcome, dataResult>>
    /\ UNCHANGED nonSessionVars

ThreadStep(t) ==
    \/ Data_Start(t)
    \/ Fetch_Acquire(t)
    \/ Fetch_Write(t)
    \/ Fetch_ReadLine(t)
    \/ Fetch_ReadEOF(t)
    \/ Fetch_Parse(t)
    \/ Data_Fallback(t)
    \/ Data_Return(t)

WorkerProgress == Worker_Take \/ Worker_Emit

SessionNext ==
    \/ \E t \in Threads : ThreadStep(t)
    \/ WorkerProgress
    \/ Worker_Die
    \/ Worker_Hang

(***************************************************************************)
(* Part II: the path as framed for the worker and as quoted for the shell  *)
(*                                                                         *)
(* A path is a sequence of characters. The characters of the model: a safe *)
(* one, the space, the single quote and the newline ("NL"); "DQ" is the    *)
(* double quote, which only quoting produces. POSIX branch of the code.    *)
(***************************************************************************)

\* Bound of the framing model: the longest file name.
MaxNameLen == 2

NameChars == {"a", " ", "'", "NL"}
\* shlex's safe characters [\w@%+=:,./-], among the characters of the model.
SafeChars == {"a", "/"}

Names == UNION {[1..n -> NameChars] : n \in 1..MaxNameLen}

\* The working directory of the program, inherited by the worker.
Cwd == <<"/">>

\* os.path.abspath
Abspath(p) == IF p # <<>> /\ Head(p) = "/" THEN p ELSE Cwd \o p

\* s.replace("'", "'\"'\"'")
RECURSIVE EscapeQuotes(_)
EscapeQuotes(s) ==
    IF s = <<>> THEN <<>>
    ELSE (IF Head(s) = "'" THEN <<"'", "DQ", "'", "DQ", "'">> ELSE <<Head(s)>>)
         \o EscapeQuotes(Tail(s))

\* shlex.quote
ShlexQuote(s) ==
    IF s = <<>> THEN <<"'", "'">>
    ELSE IF \A i \in 1..Len(s) : s[i] \in SafeChars THEN s
    ELSE <<"'">> \o EscapeQuotes(s) \o <<"'">>

\* _ExiftoolSession._quote_filename
QuoteFilename(p) == ShlexQuote(Abspath(p))

\* The payload is joined with newlines and the worker reads one argument per
\* line: the lines that the quoted file name becomes.
RECURSIVE SplitLines(_, _)
SplitLines(s, cur) ==
    IF s = <<>> THEN <<cur>>
    ELSE IF Head(s) = "NL" THEN <<cur>> \o SplitLines(Tail(s), <<>>)
    ELSE SplitLines(Tail(s), Append(cur, Head(s)))

PayloadFileLines(p) == SplitLines(QuoteFilename(Abspath(p)), <<>>)

\* The worker takes an argument line as it is (no shell): a file path, relative
\* to its working directory unless absolute.
WorkerPath(line) == Abspath(line)

\* -j: the records of the files found, in order; fetch takes element [0].
RECURSIVE FoundIn(_, _)
FoundIn(lines, fs) ==
    IF lines = <<>> THEN <<>>
    ELSE (IF WorkerPath(Head(lines)) \in fs THEN <<WorkerPath(Head(lines))>> ELSE <<>>)
         \o FoundIn(Tail(lines), fs)

SessionRecord(p, fs) ==
    LET found == FoundIn(PayloadFileLines(p), fs) IN
    IF found = <<>> THEN None ELSE found[1]

\* The shell's reading of the first word it is given: quotes removed, the word
\* ends at an unquoted space or newline.
RECURSIVE ShellWord(_, _)
ShellWord(s, mode) ==
    IF s = <<>> THEN <<>>
    ELSE LET c == Head(s) IN
         IF mode = "plain" THEN
             IF c = "'" THEN ShellWord(Tail(s), "single")
             ELSE IF c = "DQ" THEN ShellWord(Tail(s), "double")
             ELSE IF c \in {" ", "NL"} THEN <<>>
             ELSE <<c>> \o ShellWord(Tail(s), "plain")
         ELSE IF mode = "single" THEN
             IF c = "'" THEN ShellWord(Tail(s), "plain")
             ELSE <<c>> \o ShellWord(Tail(s), "single")
         ELSE
             IF c = "DQ" THEN ShellWord(Tail(s), "plain")
             ELSE <<c>> \o ShellWord(Tail(s), "double")

\* Exif.get_exif_command: the file argument of the one-shot command line.
ExifCommandArg(p) == ShlexQuote(Abspath(p))

\* check_output(exif_command, shell=True): the record of the file the shell
\* hands to exiftool; exiftool exits non-zero when there is no such file.
OneShotRecord(p, fs) ==
    LET w == Abspath(ShellWord(ExifCommandArg(p), "plain")) IN
    IF w \in fs THEN w ELSE None

\* The paths a file can be at: the files asked for, and everything an argument
\* line of a frame can name.
AskedPaths == {Abspath(n) : n \in Names}
LinePaths ==
    UNION {{WorkerPath(PayloadFileLines(n)[i]) : i \in 1..Len(PayloadFileLines(n))}
           : n \in Names}
PathUniverse == AskedPaths \cup LinePaths

QuoteOff ==
    /\ qFs = {}
    /\ qName = <<>>
    /\ qPc = "off"
    /\ qFetch = None
    /\ qResult = None

\* The requested file exists; one more file may exist anywhere.
QuoteInit ==
    /\ qName \in Names
    /\ \E other \in PathUniverse : qFs = {Abspath(qName), other}
    /\ qPc = "ask"
    /\ qFetch = None
    /\ qResult = None

\* Exif.data, first half: the persistent session's answer.
Quote_Fetch ==
    /\ qPc = "ask"
    /\ qFetch' = SessionRecord(Abspath(qName), qFs)
    /\ IF SessionRecord(Abspath(qName), qFs) # None
       THEN qResult' = SessionRecord(Abspath(qName), qFs) /\ qPc' = "done"
       ELSE qResult' = qResult /\ qPc' = "fallback"
    /\ UNCHANGED <<qFs, qName>>
    /\ UNCHANGED <<sessionVars, runVars, otherVars>>

\* Exif.data, second half: the one-shot command.
Quote_Fallback ==
    /\ qPc = "fallback"
    /\ qResult' = OneShotRecord(Abspath(qName), qFs)
    /\ qPc' = "done"
    /\ UNCHANGED <<qFs, qName, qFetch>>
    /\ UNCHANGED <<sessionVars, runVars, otherVars>>

QuoteNext == Quote_Fetch \/ Quote_Fallback

(***************************************************************************)
(* Part III: the run (Phockup.__init__, walk_directory, process_file)      *)
(*                                                                         *)
(* The input tree holds up to MaxFiles of four files. f1, f2 and f3 carry  *)
(* the same capture time, hence the same target name n1; f1 and f2 differ  *)
(* in content, f3 has the content of f1 and a later modification time; f4  *)
(* has no date. f2 lives in a subdirectory. Each may have an .xmp sidecar. *)
(***************************************************************************)

\* Bounds of the run model.
MaxFiles == 2
MaxSuffix == 4
MaxVanish == 1

Primaries == {"f1", "f2", "f3", "f4"}
\* files.sort(): the order in which the walk lists them.
WalkOrder == <<"f1", "f2", "f3", "f4">>
Xmp(f) ==
    CASE f = "f1" -> "f1.xmp"
      [] f = "f2" -> "f2.xmp"
      [] f = "f3" -> "f3.xmp"
      [] f = "f4" -> "f4.xmp"

Absent == [c |-> "-", m |-> 0]
FileRec(c, m) == [c |-> c, m |-> m]

\* The files as they are on disk before the run.
OnDisk(f) ==
    CASE f = "f1" -> FileRec("A", 1)
      [] f = "f2" -> FileRec("B", 1)
      [] f = "f3" -> FileRec("A", 2)
      [] f = "f4" -> FileRec("C", 3)

\* st_size: the contents of the model are all of one size.
Size(c) == 1

\* f4 carries no date.
Dated(f) == f # "f4"

\* The input subdirectory of a file, "in" being input_dir itself.
InDir(f) == IF f = "f2" THEN "in/sub" ELSE "in"
InSubdirs == {"in/sub", "in/empty"}

\* get_file_name_and_path: target_file_name. A file that exiftool cannot read
\* has no file type and keeps its base name.
TargetName(f, present) == IF present /\ Dated(f) THEN "n1" ELSE f

\* get_output_dir: the dated directory, or self.no_date_dir.
OutputDir(name) == IF name = "n1" THEN "out/dated" ELSE "out/unknown"

DestNames == {"n1"} \cup Primaries
DestPaths == DestNames \X (1..MaxSuffix)

Workers == {1, 2}
CounterNames == {"files_processed", "duplicates_found", "unknown_found",
                 "files_moved", "files_copied"}

Options ==
    [dry_run : BOOLEAN, move : BOOLEAN, link : BOOLEAN, movedel : BOOLEAN,
     skip_unknown : BOOLEAN, rmdirs : BOOLEAN, max_concurrency : {1, 2}]

\* _iter_files: the primaries of the input tree in walk order, each followed
\* by its sidecar.
RECURSIVE Listing(_, _, _)
Listing(order, present, side) ==
    IF order = <<>> THEN <<>>
    ELSE LET f == Head(order) IN
         (IF f \in present THEN <<f>> ELSE <<>>)
         \o (IF f \in present /\ f \in side THEN <<Xmp(f)>> ELSE <<>>)
         \o Listing(Tail(order), present, side)

Filesystem == <<srcFs, sideFs, dstFs, dstSide, dirs>>

\* No run is in progress: the run's state is empty.
RunOff ==
    /\ opt = <<>>
    /\ phase = "off"
    /\ queue = <<>>
    /\ srcFs = <<>>
    /\ sideFs = <<>>
    /\ dstFs = <<>>
    /\ dstSide = {}
    /\ dirs = {}
    /\ counters = <<>>
    /\ wpc = <<>>
    /\ wfile = <<>>
    /\ wname = <<>>
    /\ wsuffix = <<>>
    /\ wstat = <<>>
    /\ wreg = <<>>
    /\ wctr = <<>>
    /\ wafter = <<>>
    /\ raised = FALSE
    /\ vanishLeft = 0
    /\ fsInit = <<>>
    /\ clobbered = FALSE
    /\ placed = <<>>
    /\ passedFinal = 0
    /\ started = {}
    /\ vanished = {}
    /\ planned = {}
    /\ walker = <<>>

\* The main thread of a walk in which no interrupt arrived, with the files
\* `rest` still to be submitted.
Walking(rest) == [unsubmitted |-> rest, caught |-> FALSE, before |-> {}]

\* The state when Phockup.__init__ is entered: the options, an input tree, an
\* output tree that is missing ("none"), empty, or holds at the target name a
\* file with the content of f1 ("A"), and possibly an input subdirectory with
\* no file in it.
\* With max_concurrency > 1 executor.map first submits every file
\* of the listing to the pool, whose threads start on the first ones meanwhile;
\* `submitted` tells whether the state is taken after that (TRUE) or before.
\* With one worker the queue is the generator _iter_files itself.
RunInitAt(opts, inputs, sides, vanishes, outs, empties, submitted) ==
    /\ opt \in opts
    /\ phase = "init"
    /\ \E present \in inputs, side \in sides :
        /\ srcFs = [f \in Primaries |-> IF f \in present THEN OnDisk(f) ELSE Absent]
        /\ sideFs = [f \in Primaries |-> f \in present /\ f \in side]
        /\ IF submitted \/ opt.max_concurrency = 1
           THEN /\ queue = Listing(WalkOrder, present, side)
                /\ walker = Walking(<<>>)
           ELSE /\ queue = <<>>
                /\ walker = Walking(Listing(WalkOrder, present, side))
        /\ \E out \in outs, empty \in empties :
            /\ dirs = {"in"}
                      \cup (IF "f2" \in present THEN {"in/sub"} ELSE {})
                      \cup (IF empty THEN {"in/empty"} ELSE {})
                      \cup (IF out = "none" THEN {} ELSE {"out"})
                      \cup (IF out = "A" THEN {"out/dated"} ELSE {})
            /\ dstFs = [d \in DestPaths |->
                          IF d = <<"n1", 1>> /\ out = "A"
                          THEN FileRec("A", 9) ELSE Absent]
    /\ dstSide = {}
    /\ counters = [n \in CounterNames |-> 0]
    /\ wpc = [w \in Workers |-> "idle"]
    /\ wfile = [w \in Workers |-> "f1"]
    /\ wname = [w \in Workers |-> "n1"]
    /\ wsuffix = [w \in Workers |-> 1]
    /\ wstat = [w \in Workers |-> <<Absent, Absent>>]
    /\ wreg = [w \in Workers |-> 0]
    /\ wctr = [w \in Workers |-> "files_processed"]
    /\ wafter = [w \in Workers |-> "idle"]
    /\ raised = FALSE
    /\ vanishLeft \in vanishes
    /\ fsInit = Filesystem
    /\ clobbered = FALSE
    /\ placed = [d \in DestPaths |-> {}]
    /\ passedFinal = 0
    /\ started = {}
    /\ vanished = {}
    /\ planned = {}

RunInit(opts, inputs, sides, vanishes, outs, empties) ==
    RunInitAt(opts, inputs, sides, vanishes, outs, empties, TRUE)

\* check_directories: the output directory is created unless this is a dry run.
CheckDirectories ==
    /\ phase = "init"
    /\ phase' = "walk"
    /\ dirs' = IF "out" \notin dirs /\ ~opt.dry_run THEN dirs \cup {"out"} ELSE dirs
    /\ UNCHANGED <<opt, queue, srcFs, sideFs, dstFs, dstSide, counters, wpc, wfile,
                   wname, wsuffix, wstat, wreg, wctr, wafter, raised, vanishLeft,
                   fsInit, clobbered, placed, passedFinal, started>>
    /\ UNCHANGED <<sessionVars, quoteVars, otherVars, vanished, planned, walker>>

Target(w) == <<wname[w], wsuffix[w]>>

\* self.<counter> += 1, to be followed by position `after`.
Increment(w, ctr, after) ==
    /\ wctr' = [wctr EXCEPT ![w] = ctr]
    /\ wafter' = [wafter EXCEPT ![w] = after]
    /\ wpc' = [wpc EXCEPT ![w] = "load"]

\* The break statements of the loop all lead to files_processed += 1.
Break(w) == Increment(w, "files_processed", "idle")

\* walk_directory hands the next listed file to process_file: the .xmp test,
\* get_file_name_and_path (with the makedirs of get_output_dir), suffix = 1.
ProcessFile_Start(w) ==
    /\ phase = "walk"
    /\ w <= opt.max_concurrency
    /\ wpc[w] = "idle"
    /\ queue # <<>>
    /\ ~raised \/ opt.max_concurrency > 1
    /\ queue' = Tail(queue)
    /\ LET f == Head(queue) IN
       IF f \notin Primaries
       THEN UNCHANGED <<wpc, wfile, wname, wsuffix, dirs, started>>
       ELSE LET name == TargetName(f, srcFs[f] # Absent) IN
            /\ wfile' = [wfile EXCEPT ![w] = f]
            /\ wname' = [wname EXCEPT ![w] = name]
            /\ wsuffix' = [wsuffix EXCEPT ![w] = 1]
            /\ wpc' = [wpc EXCEPT ![w] = "top"]
            /\ started' = started \cup {f}
            /\ dirs' = IF opt.dry_run THEN dirs
                       ELSE dirs \cup {"out", OutputDir(name)}
    /\ UNCHANGED <<opt, phase, srcFs, sideFs, dstFs, dstSide, counters, wstat, wreg,
                   wctr, wafter, raised, vanishLeft, fsInit, clobbered, placed,
                   passedFinal>>
    /\ UNCHANGED <<sessionVars, quoteVars, otherVars, vanished, planned, walker>>

\* The head of the while loop: the unknown-date filter, then
\* os.path.isfile(target_file).
Loop_Top(w) ==
    /\ wpc[w] = "top"
    /\ IF opt.skip_unknown /\ OutputDir(wname[w]) = "out/unknown"
       THEN Increment(w, "unknown_found", "account")
       ELSE /\ wpc' = [wpc EXCEPT ![w] =
                         IF dstFs[Target(w)] # Absent THEN "stat" ELSE "transfer"]
            /\ UNCHANGED <<wctr, wafter>>
    /\ UNCHANGED <<opt, phase, queue, srcFs, sideFs, dstFs, dstSide, dirs, counters,
                   wfile, wname, wsuffix, wstat, wreg, raised, vanishLeft, fsInit,
                   clobbered, placed, passedFinal, started>>
    /\ UNCHANGED <<sessionVars, quoteVars, otherVars, vanished, planned, walker>>

\* source_stats = os.stat(filename); target_stats = os.stat(target_file)
Loop_Stat(w) ==
    /\ wpc[w] = "stat"
    /\ IF srcFs[wfile[w]] = Absent \/ dstFs[Target(w)] = Absent
       THEN /\ Break(w)
            /\ UNCHANGED wstat
       ELSE /\ wstat' = [wstat EXCEPT ![w] = <<srcFs[wfile[w]], dstFs[Target(w)]>>]
            /\ wpc' = [wpc EXCEPT ![w] = "compare"]
            /\ UNCHANGED <<wctr, wafter>>
    /\ UNCHANGED <<opt, phase, queue, srcFs, sideFs, dstFs, dstSide, dirs, counters,
                   wfile, wname, wsuffix, wreg, raised, vanishLeft, fsInit,
                   clobbered, placed, passedFinal, started>>
    /\ UNCHANGED <<sessionVars, quoteVars, otherVars, vanished, planned, walker>>

\* An exception leaves process_file.
Raise(w) ==
    /\ raised' = TRUE
    /\ wpc' = [wpc EXCEPT ![w] = "idle"]

\* st_size equal and (st_mtime equal or filecmp.cmp(..., shallow=False));
\* filecmp.cmp raises when the source is gone. Not a duplicate: the next suffix.
Loop_Compare(w) ==
    /\ wpc[w] = "compare"
    /\ LET s == wstat[w][1]
           t == wstat[w][2]
           f == wfile[w]
       IN
       IF Size(s.c) = Size(t.c) /\ s.m = t.m
       THEN /\ wpc' = [wpc EXCEPT ![w] = "duplicate"]
            /\ UNCHANGED <<wsuffix, raised>>
       ELSE IF Size(s.c) = Size(t.c) /\ srcFs[f] = Absent
       THEN /\ Raise(w)
            /\ UNCHANGED wsuffix
       ELSE IF Size(s.c) = Size(t.c) /\ srcFs[f].c = dstFs[Target(w)].c
       THEN /\ wpc' = [wpc EXCEPT ![w] = "duplicate"]
            /\ UNCHANGED <<wsuffix, raised>>
       ELSE /\ wsuffix[w] < MaxSuffix
            /\ wsuffix' = [wsuffix EXCEPT ![w] = wsuffix[w] + 1]
            /\ wpc' = [wpc EXCEPT ![w] = "top"]
            /\ UNCHANGED raised
    /\ UNCHANGED <<opt, phase, queue, srcFs, sideFs, dstFs, dstSide, dirs, counters,
                   wfile, wname, wstat, wreg, wctr, wafter, vanishLeft, fsInit,
                   clobbered, placed, passedFinal, started>>
    /\ UNCHANGED <<sessionVars, quoteVars, otherVars, vanished, planned, walker>>

\* A duplicate whose source is deleted whenever the run moves files.
DeleteOnDuplicate_MoveOnly == opt.move /\ ~opt.dry_run

\* if self.movedel and self.move and self.skip_unknown: if not self.dry_run:
DeleteOnDuplicate ==
    opt.movedel /\ opt.move /\ opt.skip_unknown /\ ~opt.dry_run

\* The duplicate branch: os.remove(filename) under the three flags, then
\* duplicates_found += 1 and break.
Loop_Duplicate(w) ==
    /\ wpc[w] = "duplicate"
    /\ LET f == wfile[w]
           delete == DeleteOnDuplicate
       IN
       IF delete /\ srcFs[f] = Absent
       THEN /\ Raise(w)
            /\ UNCHANGED <<srcFs, wctr, wafter>>
       ELSE /\ srcFs' = IF delete THEN [srcFs EXCEPT ![f] = Absent] ELSE srcFs
            /\ Increment(w, "duplicates_found", "account")
            /\ UNCHANGED raised
    /\ UNCHANGED <<opt, phase, queue, sideFs, dstFs, dstSide, dirs, counters, wfile,
                   wname, wsuffix, wstat, wreg, vanishLeft, fsInit, clobbered,
                   placed, passedFinal, started>>
    /\ UNCHANGED <<sessionVars, quoteVars, otherVars, vanished, planned, walker>>

\* The else branch of os.path.isfile(target_file): the counter of the transfer
\* mode is incremented before the transfer is tried.
Transfer_Begin(w) ==
    /\ wpc[w] = "transfer"
    /\ IF opt.move THEN Increment(w, "files_moved", "move")
       ELSE IF opt.link /\ ~opt.dry_run
       THEN /\ wpc' = [wpc EXCEPT ![w] = "link"]
            /\ UNCHANGED <<wctr, wafter>>
       ELSE Increment(w, "files_copied", "copy")
    /\ UNCHANGED <<opt, phase, queue, srcFs, sideFs, dstFs, dstSide, dirs, counters,
                   wfile, wname, wsuffix, wstat, wreg, raised, vanishLeft, fsInit,
                   clobbered, placed, passedFinal, started>>
    /\ UNCHANGED <<sessionVars, quoteVars, otherVars, vanished, planned, walker>>

\* The file lands on the target path, replacing what is there.
Land(w, rec) ==
    /\ dstFs' = [dstFs EXCEPT ![Target(w)] = rec]
    /\ clobbered' = (clobbered \/ dstFs[Target(w)] # Absent)
    /\ placed' = [placed EXCEPT ![Target(w)] = @ \cup {wfile[w]}]

\* shutil.move(filename, target_file); FileNotFoundError is caught.
Transfer_Move(w) ==
    /\ wpc[w] = "move"
    /\ LET f == wfile[w] IN
       IF opt.dry_run
       THEN /\ wpc' = [wpc EXCEPT ![w] = "sidecars"]
            /\ UNCHANGED <<srcFs, dstFs, clobbered, placed, wctr, wafter>>
       ELSE IF srcFs[f] = Absent
       THEN /\ Break(w)
            /\ UNCHANGED <<srcFs, dstFs, clobbered, placed>>
       ELSE /\ Land(w, srcFs[f])
            /\ srcFs' = [srcFs EXCEPT ![f] = Absent]
            /\ wpc' = [wpc EXCEPT ![w] = "sidecars"]
            /\ UNCHANGED <<wctr, wafter>>
    /\ UNCHANGED <<opt, phase, queue, sideFs, dstSide, dirs, counters, wfile, wname,
                   wsuffix, wstat, wreg, raised, vanishLeft, fsInit, passedFinal,
                   started>>
    /\ planned' = IF wpc'[w] = "sidecars"
                   THEN planned \cup {<<wfile[w], Target(w)>>} ELSE planned
    /\ UNCHANGED <<sessionVars, quoteVars, otherVars, vanished, walker>>

\* os.link(filename, target_file): FileNotFoundError and FileExistsError are
\* not caught.
Transfer_Link(w) ==
    /\ wpc[w] = "link"
    /\ LET f == wfile[w] IN
       IF srcFs[f] = Absent \/ dstFs[Target(w)] # Absent
       THEN /\ Raise(w)
            /\ UNCHANGED <<dstFs, clobbered, placed>>
       ELSE /\ Land(w, srcFs[f])
            /\ wpc' = [wpc EXCEPT ![w] = "sidecars"]
            /\ UNCHANGED raised
    /\ UNCHANGED <<opt, phase, queue, srcFs, sideFs, dstSide, dirs, counters, wfile,
                   wname, wsuffix, wstat, wreg, wctr, wafter, vanishLeft, fsInit,
                   passedFinal, started>>
    /\ planned' = IF wpc'[w] = "sidecars"
                   THEN planned \cup {<<wfile[w], Target(w)>>} ELSE planned
    /\ UNCHANGED <<sessionVars, quoteVars, otherVars, vanished, walker>>

\* A copy that a dry run carries out as well.
Transfer_Copy_InDryRun(w) ==
    /\ wpc[w] = "copy"
    /\ LET f == wfile[w] IN
       IF srcFs[f] = Absent
       THEN /\ Break(w)
            /\ UNCHANGED <<dstFs, clobbered, placed>>
       ELSE /\ Land(w, srcFs[f])
            /\ wpc' = [wpc EXCEPT ![w] = "sidecars"]
            /\ UNCHANGED <<wctr, wafter>>
    /\ UNCHANGED <<opt, phase, queue, srcFs, sideFs, dstSide, dirs, counters, wfile,
                   wname, wsuffix, wstat, wreg, raised, vanishLeft, fsInit,
                   passedFinal, started>>
    /\ planned' = IF wpc'[w] = "sidecars"
                   THEN planned \cup {<<wfile[w], Target(w)>>} ELSE planned
    /\ UNCHANGED <<sessionVars, quoteVars, otherVars, vanished, walker>>

\* self.copy_file(filename, target_file); FileNotFoundError is caught.
Transfer_Copy(w) ==
    /\ wpc[w] = "copy"
    /\ LET f == wfile[w] IN
       IF opt.dry_run
       THEN /\ wpc' = [wpc EXCEPT ![w] = "sidecars"]
            /\ UNCHANGED <<dstFs, clobbered, placed, wctr, wafter>>
       ELSE IF srcFs[f] = Absent
       THEN /\ Break(w)
            /\ UNCHANGED <<dstFs, clobbered, placed>>
       ELSE /\ Land(w, srcFs[f])
            /\ wpc' = [wpc EXCEPT ![w] = "sidecars"]
            /\ UNCHANGED <<wctr, wafter>>
    /\ UNCHANGED <<opt, phase, queue, srcFs, sideFs, dstSide, dirs, counters, wfile,
                   wname, wsuffix, wstat, wreg, raised, vanishLeft, fsInit,
                   passedFinal, started>>
    /\ planned' = IF wpc'[w] = "sidecars"
                   THEN planned \cup {<<wfile[w], Target(w)>>} ELSE planned
    /\ UNCHANGED <<sessionVars, quoteVars, otherVars, vanished, walker>>

\* process_sidecars: os.path.isfile(original) for the .xmp of the file.
Sidecars_Probe(w) ==
    /\ wpc[w] = "sidecars"
    /\ IF sideFs[wfile[w]]
       THEN /\ wpc' = [wpc EXCEPT ![w] = "companion"]
            /\ UNCHANGED <<wctr, wafter>>
       ELSE Break(w)
    /\ UNCHANGED <<opt, phase, queue, srcFs, sideFs, dstFs, dstSide, dirs, counters,
                   wfile, wname, wsuffix, wstat, wreg, raised, vanishLeft, fsInit,
                   clobbered, placed, passedFinal, started>>
    /\ UNCHANGED <<sessionVars, quoteVars, otherVars, vanished, planned, walker>>

\* _transfer_companion: nothing in a dry run or when the target exists; else
\* move, link or copy, with no exception caught.
TransferCompanion(w) ==
    /\ wpc[w] = "companion"
    /\ LET f == wfile[w] IN
       IF opt.dry_run \/ Target(w) \in dstSide
       THEN /\ Break(w)
            /\ UNCHANGED <<sideFs, dstSide, raised>>
       ELSE IF ~sideFs[f]
       THEN /\ Raise(w)
            /\ UNCHANGED <<sideFs, dstSide, wctr, wafter>>
       ELSE /\ dstSide' = dstSide \cup {Target(w)}
            /\ sideFs' = IF opt.move THEN [sideFs EXCEPT ![f] = FALSE] ELSE sideFs
            /\ Break(w)
            /\ UNCHANGED raised
    /\ UNCHANGED <<opt, phase, queue, srcFs, dstFs, dirs, counters, wfile, wname,
                   wsuffix, wstat, wreg, vanishLeft, fsInit, clobbered, placed,
                   passedFinal, started>>
    /\ UNCHANGED <<sessionVars, quoteVars, otherVars, vanished, planned, walker>>

\* The statement after unknown_found += 1 and duplicates_found += 1: break.
Loop_Break(w) ==
    /\ wpc[w] = "account"
    /\ Break(w)
    /\ UNCHANGED <<opt, phase, queue, srcFs, sideFs, dstFs, dstSide, dirs, counters,
                   wfile, wname, wsuffix, wstat, wreg, raised, vanishLeft, fsInit,
                   clobbered, placed, passedFinal, started>>
    /\ UNCHANGED <<sessionVars, quoteVars, otherVars, vanished, planned, walker>>

\* += 1, first half: the attribute is read.
Increment_Load(w) ==
    /\ wpc[w] = "load"
    /\ wreg' = [wreg EXCEPT ![w] = counters[wctr[w]]]
    /\ wpc' = [wpc EXCEPT ![w] = "store"]
    /\ UNCHANGED <<opt, phase, queue, srcFs, sideFs, dstFs, dstSide, dirs, counters,
                   wfile, wname, wsuffix, wstat, wctr, wafter, raised, vanishLeft,
                   fsInit, clobbered, placed, passedFinal, started>>
    /\ UNCHANGED <<sessionVars, quoteVars, otherVars, vanished, planned, walker>>

\* += 1, second half: the value read plus one is stored.
Increment_Store(w) ==
    /\ wpc[w] = "store"
    /\ counters' = [counters EXCEPT ![wctr[w]] = wreg[w] + 1]
    /\ wpc' = [wpc EXCEPT ![w] = wafter[w]]
    /\ passedFinal' = IF wctr[w] = "files_processed" THEN passedFinal + 1
                      ELSE passedFinal
    /\ UNCHANGED <<opt, phase, queue, srcFs, sideFs, dstFs, dstSide, dirs, wfile,
                   wname, wsuffix, wstat, wreg, wctr, wafter, raised, vanishLeft,
                   fsInit, clobbered, placed, started>>
    /\ UNCHANGED <<sessionVars, quoteVars, otherVars, vanished, planned, walker>>

AllIdle == \A w \in Workers : wpc[w] = "idle"

\* An input subdirectory with no file left in it.
EmptyDir(d) ==
    \A f \in Primaries : InDir(f) = d => srcFs[f] = Absent /\ ~sideFs[f]

\* rm_subdirs: os.rmdir of every subdirectory of the input, which succeeds on
\* the empty ones.
RmSubdirs(ds) == ds \ {d \in InSubdirs : EmptyDir(d)}

\* walk_directory returned: rm_subdirs under move and rmdirs, then the report.
Finish ==
    /\ phase = "walk"
    /\ queue = <<>>
    /\ walker.unsubmitted = <<>>
    /\ AllIdle
    /\ ~raised
    /\ phase' = "done"
    /\ dirs' = IF opt.move /\ opt.rmdirs THEN RmSubdirs(dirs) ELSE dirs
    /\ UNCHANGED <<opt, queue, srcFs, sideFs, dstFs, dstSide, counters, wpc, wfile,
                   wname, wsuffix, wstat, wreg, wctr, wafter, raised, vanishLeft,
                   fsInit, clobbered, placed, passedFinal, started>>
    /\ UNCHANGED <<sessionVars, quoteVars, otherVars, vanished, planned, walker>>

\* The exception of a task reaches walk_directory, which catches only
\* KeyboardInterrupt: the tasks not yet started are cancelled and the exception
\* leaves Phockup.__init__.
Abort ==
    /\ phase = "walk"
    /\ raised
    /\ walker.unsubmitted = <<>>
    /\ ~walker.caught
    /\ AllIdle
    /\ phase' = "aborted"
    /\ queue' = <<>>
    /\ UNCHANGED <<opt, srcFs, sideFs, dstFs, dstSide, dirs, counters, wpc, wfile,
                   wname, wsuffix, wstat, wreg, wctr, wafter, raised, vanishLeft,
                   fsInit, clobbered, placed, passedFinal, started>>
    /\ UNCHANGED <<sessionVars, quoteVars, otherVars, vanished, planned, walker>>

\* Another program deletes a listed input file that is still to be handled.
Pending(f) == \E i \in 1..Len(queue) : queue[i] = f
InHand(f) == \E w \in Workers : wpc[w] # "idle" /\ wfile[w] = f

Env_DeleteSource(f) ==
    /\ phase = "walk"
    /\ vanishLeft > 0
    /\ srcFs[f] # Absent
    /\ Pending(f) \/ InHand(f)
    /\ srcFs' = [srcFs EXCEPT ![f] = Absent]
    /\ vanished' = vanished \cup {f}
    /\ vanishLeft' = vanishLeft - 1
    /\ UNCHANGED <<opt, phase, queue, sideFs, dstFs, dstSide, dirs, counters, wpc,
                   wfile, wname, wsuffix, wstat, wreg, wctr, wafter, raised, fsInit,
                   clobbered, placed, passedFinal, started>>
    /\ UNCHANGED <<sessionVars, quoteVars, otherVars, planned, walker>>

Env_DeleteCompanion(f) ==
    /\ phase = "walk"
    /\ vanishLeft > 0
    /\ sideFs[f]
    /\ Pending(f) \/ InHand(f)
    /\ sideFs' = [sideFs EXCEPT ![f] = FALSE]
    /\ vanished' = vanished \cup {Xmp(f)}
    /\ vanishLeft' = vanishLeft - 1
    /\ UNCHANGED <<opt, phase, queue, srcFs, dstFs, dstSide, dirs, counters, wpc,
                   wfile, wname, wsuffix, wstat, wreg, wctr, wafter, raised, fsInit,
                   clobbered, placed, passedFinal, started>>
    /\ UNCHANGED <<sessionVars, quoteVars, otherVars, planned, walker>>

\* executor.map, its first half: fs = [self.submit(fn, *args) for args in
\* zip(*iterables)] hands the next listed file to the pool.
Submit ==
    /\ phase = "walk"
    /\ opt.max_concurrency > 1
    /\ walker.unsubmitted # <<>>
    /\ queue' = Append(queue, Head(walker.unsubmitted))
    /\ walker' = [walker EXCEPT !.unsubmitted = Tail(@)]
    /\ UNCHANGED <<opt, phase, srcFs, sideFs, dstFs, dstSide, dirs, counters, wpc,
                   wfile, wname, wsuffix, wstat, wreg, wctr, wafter, raised,
                   vanishLeft, fsInit, clobbered, placed, passedFinal, started>>
    /\ UNCHANGED <<sessionVars, quoteVars, otherVars, vanished, planned>>

\* What is left in the pool's queue when KeyboardInterrupt reaches the main
\* thread. In the submitting half of executor.map nothing cancels the futures
\* submitted so far: executor.shutdown(wait=False) only forbids new ones, and
\* leaving the with block joins the threads, which first empty the queue. In
\* the waiting half the finally clause of the result iterator cancels the
\* futures that have not started. With one worker the for loop is left.
QueueAfterInterrupt ==
    IF opt.max_concurrency > 1 /\ walker.unsubmitted # <<>> THEN queue ELSE <<>>

\* KeyboardInterrupt arrives in the main thread during walk_directory and is
\* caught there. With one worker the main thread is inside process_file or
\* between two files, and the call is abandoned where it is.
Interrupt ==
    /\ phase = "walk"
    /\ ~walker.caught
    /\ ~raised
    /\ walker' = [unsubmitted |-> <<>>, caught |-> TRUE, before |-> started]
    /\ queue' = QueueAfterInterrupt
    /\ wpc' = IF opt.max_concurrency = 1 THEN [w \in Workers |-> "idle"] ELSE wpc
    /\ UNCHANGED <<opt, phase, srcFs, sideFs, dstFs, dstSide, dirs, counters,
                   wfile, wname, wsuffix, wstat, wreg, wctr, wafter, raised,
                   vanishLeft, fsInit, clobbered, placed, passedFinal, started>>
    /\ UNCHANGED <<sessionVars, quoteVars, otherVars, vanished, planned>>

ProcessFile(w) ==
    \/ ProcessFile_Start(w)
    \/ Loop_Top(w)
    \/ Loop_Stat(w)
    \/ Loop_Compare(w)
    \/ Loop_Duplicate(w)
    \/ Loop_Break(w)
    \/ Transfer_Begin(w)
    \/ Transfer_Move(w)
    \/ Transfer_Link(w)
    \/ Transfer_Copy(w)
    \/ Sidecars_Probe(w)
    \/ TransferCompanion(w)
    \/ Increment_Load(w)
    \/ Increment_Store(w)

RunNext ==
    \/ CheckDirectories
    \/ \E w \in Workers : ProcessFile(w)
    \/ Finish
    \/ Abort
    \/ \E f \in Primaries : Env_DeleteSource(f)
    \/ \E f \in Primaries : Env_DeleteCompanion(f)

\* A run during which the user may interrupt the program.
InterruptNext ==
    \/ CheckDirectories
    \/ Submit
    \/ Interrupt
    \/ \E w \in Workers : ProcessFile(w)
    \/ Finish
    \/ Abort

\* The steps of process_file that a dry run can take: os.link is not among
\* them, and with a fixed input tree nothing raises.
DryProcessFile(w) ==
    \/ ProcessFile_Start(w)
    \/ Loop_Top(w)
    \/ Loop_Stat(w)
    \/ Loop_Compare(w)
    \/ Loop_Duplicate(w)
    \/ Loop_Break(w)
    \/ Transfer_Begin(w)
    \/ Transfer_Move(w)
    \/ Transfer_Copy(w)
    \/ Sidecars_Probe(w)
    \/ TransferCompanion(w)
    \/ Increment_Load(w)
    \/ Increment_Store(w)

DryRunNext ==
    \/ CheckDirectories
    \/ \E w \in Workers : DryProcessFile(w)
    \/ Finish

\* What process_file computes for file f against an unchanging filesystem
\* (src, dst): the destination path it would transfer to, or "none" when the
\* file is filtered out or met as a duplicate. k is the suffix.
RECURSIVE PlanFrom(_, _, _, _)
PlanFrom(f, k, src, dst) ==
    LET name == TargetName(f, TRUE)
        t == <<name, k>>
    IN
    IF opt.skip_unknown /\ OutputDir(name) = "out/unknown" THEN "none"
    ELSE IF dst[t] = Absent THEN t
    ELSE IF Size(src[f].c) = Size(dst[t].c)
            /\ (src[f].m = dst[t].m \/ src[f].c = dst[t].c) THEN "none"
    ELSE IF k < MaxSuffix THEN PlanFrom(f, k + 1, src, dst)
    ELSE "none"

\* The pairs a run computes over the tree it was given, file by file.
Plan ==
    {<<f, PlanFrom(f, 1, fsInit[1], fsInit[3])>> :
        f \in {g \in Primaries : fsInit[1][g] # Absent
                                 /\ PlanFrom(g, 1, fsInit[1], fsInit[3]) # "none"}}

\* The input trees of the model: up to MaxFiles of the four files.
InputTrees == {s \in SUBSET Primaries : s # {} /\ Cardinality(s) <= MaxFiles}

(***************************************************************************)
(* Part IV: the name and the directory of one file (process_file up to the *)
(* transfer, get_file_name_and_path, get_output_dir, get_file_name)        *)
(*                                                                         *)
(* Strings are sequences of characters. The output directory is "o"; a     *)
(* date has the year "2" and a month "1" or "3".                           *)
(***************************************************************************)

XmpExt == <<".", "x", "m", "p">>

\* Phockup.MEDIA_EXTENSIONS, as far as the files of the model go.
MEDIA_EXTENSIONS == {<<".", "j", "p", "g">>}
SIDECAR_EXTENSIONS == {XmpExt, <<".", "a", "a", "e">>, <<".", "j", "s", "o", "n">>}

\* The file names of the model: a stem and an extension.
Extensions ==
    MEDIA_EXTENSIONS \cup SIDECAR_EXTENSIONS
    \cup {<<".", "J", "P", "G">>, <<".", "t", "x", "t">>}
Stems == {<<"a">>, <<"A">>}

\* str.lower
LowerChar(c) ==
    CASE c = "A" -> "a"
      [] c = "J" -> "j"
      [] c = "P" -> "p"
      [] c = "G" -> "g"
      [] OTHER -> c
Lower(s) == [i \in 1..Len(s) |-> LowerChar(s[i])]

\* str.endswith
EndsWith(s, t) ==
    /\ Len(t) <= Len(s)
    /\ SubSeq(s, Len(s) - Len(t) + 1, Len(s)) = t

\* os.path.sep.join
RECURSIVE JoinPath(_)
JoinPath(parts) ==
    IF parts = <<>> THEN <<>>
    ELSE IF Len(parts) = 1 THEN parts[1]
    ELSE parts[1] \o <<"/">> \o JoinPath(Tail(parts))

\* os.path.normpath, on the components: the empty ones vanish.
Normpath(parts) == SelectSeq(parts, LAMBDA c : c # <<>>)

NoValue == <<"None">>

\* The configurations of the model.
OutputDirName == <<"o">>
Prefixes == {NoValue, <<"p">>}
Suffixes == {NoValue, <<>>, <<"s">>}
NoDateDirs == {<<"u">>, <<"1">>}
DirFormats == {<<"%Y">>, <<"%Y", "/", "%m">>}
\* --from-date and --to-date: None, or the day "1" or "3" (the model's dates
\* differ in one field, written at the place of the month).
WindowDays == {NoValue, <<"1">>, <<"3">>}
Configs ==
    [output_prefix : Prefixes, output_suffix : Suffixes, no_date_dir : NoDateDirs,
     dir_format : DirFormats, skip_unknown : BOOLEAN, original_filenames : BOOLEAN,
     from_date : WindowDays, to_date : WindowDays]

\* The dates Date.from_exif can hand back: None, or a date of month 1 or 3, at
\* the first ("0") or at the last ("9") second of its day.
NoDate == [year |-> "-", month |-> "-", tod |-> "-"]
ModelDates == [year : {"2"}, month : {"1", "3"}, tod : {"0", "9"}]

\* The order of the instants: the day, then the second of the day.
DayNumber(day) == IF day = "1" THEN 1 ELSE 3
SecondNumber(tod) == IF tod = "0" THEN 0 ELSE 1
Instant(day, tod) == 2 * DayNumber(day) + SecondNumber(tod)

\* Date.strptime(f"{self.from_date} 00:00:00", ...) and
\* Date.strptime(f"{self.to_date} 23:59:59", ...)
FromDate(cfg) == Instant(cfg.from_date[1], "0")
ToDate(cfg) == Instant(cfg.to_date[1], "9")

\* date.strftime(self.dir_format)
RECURSIVE Strftime(_, _)
Strftime(d, fmt) ==
    IF fmt = <<>> THEN <<>>
    ELSE (IF Head(fmt) = "%Y" THEN <<d.year>>
          ELSE IF Head(fmt) = "%m" THEN <<d.month>>
          ELSE <<Head(fmt)>>)
         \o Strftime(d, Tail(fmt))

\* get_output_dir: the path list without its None values, joined, normalized.
OutputPath(cfg, dirName) ==
    JoinPath(Normpath(SelectSeq(
        <<OutputDirName, cfg.output_prefix, dirName, cfg.output_suffix>>,
        LAMBDA c : c # NoValue)))

GetOutputDir(cfg, d) ==
    IF d = NoDate THEN OutputPath(cfg, cfg.no_date_dir)
    ELSE OutputPath(cfg, Strftime(d, cfg.dir_format))

\* should_inspect_exif
ShouldInspectExif(f) == Lower(f.ext) \in MEDIA_EXTENSIONS

\* get_file_name: the base name under original_filenames or without a date,
\* else the date and the extension of the original.
GetFileName(cfg, f, d) ==
    IF cfg.original_filenames THEN f.stem \o f.ext
    ELSE IF d = NoDate THEN f.stem \o f.ext
    ELSE <<d.year, d.month, "-", d.tod>> \o f.ext

\* get_file_name_and_path: output and target_file_name.
GetFileNameAndPath(cfg, f) ==
    IF f.type \in {"image", "video"}
    THEN [output |-> GetOutputDir(cfg, f.date),
          name |-> IF cfg.original_filenames THEN GetFileName(cfg, f, f.date)
                   ELSE Lower(GetFileName(cfg, f, f.date))]
    ELSE [output |-> GetOutputDir(cfg, NoDate),
          name |-> f.stem \o f.ext]

\* The files of the model: exiftool is asked about the media files only, and
\* Date only about those it calls an image or a video.
ModelFiles ==
    {f \in [stem : Stems, ext : Extensions,
            type : {"image", "video", "other"}, date : ModelDates \cup {NoDate}] :
        /\ ~ShouldInspectExif(f) => f.type = "other"
        /\ f.type = "other" => f.date = NoDate}

NamingOff ==
    /\ nCfg = <<>>
    /\ nFile = <<>>
    /\ nPc = "off"
    /\ nOut = <<>>
    /\ nUnknown = 0

NamingInit ==
    /\ nCfg \in Configs
    /\ nFile \in ModelFiles
    /\ nPc = "entry"
    /\ nOut = <<>>
    /\ nUnknown = 0

\* process_file: the .xmp test, then get_file_name_and_path.
Name_Entry ==
    /\ nPc = "entry"
    /\ IF EndsWith(nFile.stem \o nFile.ext, XmpExt)
       THEN /\ nPc' = "returned"
            /\ UNCHANGED nOut
       ELSE /\ nOut' = GetFileNameAndPath(nCfg, nFile)
            /\ nPc' = "loop"
    /\ UNCHANGED <<nCfg, nFile, nUnknown>>
    /\ UNCHANGED <<sessionVars, quoteVars, runVars, dateVars, extraVars>>

\* The head of the while loop: the unknown-date filter.
Name_Filter ==
    /\ nPc = "loop"
    /\ IF nCfg.skip_unknown /\ EndsWith(nOut.output, nCfg.no_date_dir)
       THEN /\ nUnknown' = nUnknown + 1
            /\ nPc' = "skipped"
       ELSE /\ nPc' = "window"
            /\ UNCHANGED nUnknown
    /\ UNCHANGED <<nCfg, nFile, nOut>>
    /\ UNCHANGED <<sessionVars, quoteVars, runVars, dateVars, extraVars>>

\* date_unknown = file_date is None or output.endswith(self.no_date_dir)
date_unknown(cfg, f, out) ==
    \/ f.type \notin {"image", "video"}
    \/ f.date = NoDate
    \/ EndsWith(out.output, cfg.no_date_dir)

\* file_date < self.from_date or file_date > self.to_date, for the bounds set.
OutsideWindow(cfg, d) ==
    \/ cfg.from_date # NoValue /\ Instant(d.month, d.tod) < FromDate(cfg)
    \/ cfg.to_date # NoValue /\ Instant(d.month, d.tod) > ToDate(cfg)

\* The window test, made for the files whose date is not unknown: a file
\* outside the window leaves the loop with nothing done.
Name_Window ==
    /\ nPc = "window"
    /\ nPc' = IF ~date_unknown(nCfg, nFile, nOut) /\ OutsideWindow(nCfg, nFile.date)
              THEN "outside" ELSE "transfer"
    /\ UNCHANGED <<nCfg, nFile, nOut, nUnknown>>
    /\ UNCHANGED <<sessionVars, quoteVars, runVars, dateVars, extraVars>>

\* The file is moved, linked or copied to target_file as a primary.
Name_Transfer ==
    /\ nPc = "transfer"
    /\ nPc' = "relocated"
    /\ UNCHANGED <<nCfg, nFile, nOut, nUnknown>>
    /\ UNCHANGED <<sessionVars, quoteVars, runVars, dateVars, extraVars>>

NamingNext == Name_Entry \/ Name_Filter \/ Name_Window \/ Name_Transfer

(***************************************************************************)
(* Part V: the date of a file (Date.from_exif, from_datestring,            *)
(* _parse_offset, from_filename)                                           *)
(*                                                                         *)
(* A timestamp string is a sequence of tokens: a well-formed date and time *)
(* ("dt"), text that is no date ("xx"), the all-zero date ("zero"), the    *)
(* dot, a digit of the sub-second fragment, and signed offsets. Instants   *)
(* and offsets count minutes.                                              *)
(***************************************************************************)

Tok(t) == [t |-> t, sign |-> "", hh |-> 0, mm |-> 0, colon |-> FALSE]
OffTok(sign, hh, mm, colon) ==
    [t |-> "off", sign |-> sign, hh |-> hh, mm |-> mm, colon |-> colon]

\* +02:00, -0700 and +00:00
OffsetTokens == {OffTok("+", 2, 0, TRUE), OffTok("-", 7, 0, FALSE), OffTok("+", 0, 0, TRUE)}

\* The instant that the text "dt" names, read without an offset.
NaiveInstant == 600

\* An optional value: None, or a number of minutes.
Nothing == [has |-> FALSE, v |-> 0]
Some(x) == [has |-> TRUE, v |-> x]
\* Python's truth of an optional timedelta or datetime: timedelta(0) is false.
Truthy(o) == o.has /\ o.v # 0

\* The values of a field of the record.
Missing == [kind |-> "missing", text |-> <<>>]
Numeric == [kind |-> "int", text |-> <<>>]
StrValue(text) == [kind |-> "str", text |-> text]

\* The timestamp strings of the model: date text, offset, fragment, offset.
OptionalOffsets == {<<>>} \cup {<<o>> : o \in OffsetTokens}
Fragments == {<<>>} \cup {<<Tok("dot"), Tok("digit")>> \o o : o \in OptionalOffsets}
MkString(prim, off1, frag) == <<Tok(prim)>> \o off1 \o frag
TimestampStrings ==
    {MkString(prim, o, f) : prim \in {"dt", "xx"}, o \in OptionalOffsets, f \in Fragments}
    \cup {<<Tok("zero")>>}

Keys == <<"SubSecCreateDate", "SubSecDateTimeOriginal", "CreateDate",
          "DateTimeOriginal", "MediaCreateDate">>
TzKeys == <<"OffsetTimeOriginal", "OffsetTimeDigitized", "TimeZone">>
FieldNames == {Keys[i] : i \in 1..Len(Keys)} \cup {TzKeys[i] : i \in 1..Len(TzKeys)}

\* The records of the model: a first candidate that the key loop passes over,
\* a second candidate, and the three timezone fields.
PassedOver == {Missing, Numeric, StrValue(<<Tok("zero")>>)}
Candidates == {Missing} \cup {StrValue(x) : x \in TimestampStrings}
TzValues ==
    {Missing, StrValue(<<Tok("xx")>>), StrValue(<<OffTok("+", 0, 0, TRUE)>>),
     StrValue(<<OffTok("+", 2, 0, TRUE)>>)}
Records ==
    {[k \in FieldNames |->
        CASE k = "SubSecCreateDate" -> a
          [] k = "CreateDate" -> b
          [] k = "OffsetTimeOriginal" -> z[1]
          [] k = "OffsetTimeDigitized" -> z[2]
          [] k = "TimeZone" -> z[3]
          [] OTHER -> Missing] :
        a \in PassedOver, b \in Candidates, z \in TzValues \X TzValues \X TzValues}

\* The index of the first / last offset in a string, 0 when there is none.
FirstOffset(s) ==
    IF \E i \in 1..Len(s) : s[i].t = "off"
    THEN CHOOSE i \in 1..Len(s) : s[i].t = "off" /\ \A j \in 1..(i - 1) : s[j].t # "off"
    ELSE 0
LastOffset(s) ==
    IF \E i \in 1..Len(s) : s[i].t = "off"
    THEN CHOOSE i \in 1..Len(s) : s[i].t = "off" /\ \A j \in (i + 1)..Len(s) : s[j].t # "off"
    ELSE 0

\* Date._parse_offset: re.search finds the first offset of the text;
\* timedelta(hours=sign * hours, minutes=sign * minutes).
ParseOffset(s) ==
    IF s = <<>> \/ FirstOffset(s) = 0 THEN Nothing
    ELSE LET m == s[FirstOffset(s)]
             sign == IF m.sign = "+" THEN 1 ELSE -1
         IN Some(sign * m.hh * 60 + sign * m.mm)

\* re.sub(offset_search, r'\2', s) and re.sub(offset_search, r'\1', s): the
\* greedy (.*) makes the last offset of the text the one that matches; what
\* follows the match stays.
OffsetPart(s) == SubSeq(s, LastOffset(s), Len(s))
WithoutOffset(s) == SubSeq(s, 1, LastOffset(s) - 1) \o SubSeq(s, LastOffset(s) + 1, Len(s))

\* datestr.split('.'): the first two parts.
DotAt(s) ==
    IF \E i \in 1..Len(s) : s[i].t = "dot"
    THEN CHOOSE i \in 1..Len(s) : s[i].t = "dot" /\ \A j \in 1..(i - 1) : s[j].t # "dot"
    ELSE Len(s) + 1
DatePart(s) == SubSeq(s, 1, DotAt(s) - 1)
SubsecPart(s) ==
    LET rest == SubSeq(s, DotAt(s) + 1, Len(s)) IN SubSeq(rest, 1, DotAt(rest) - 1)

\* Date.strptime under the two formats: ValueError on anything but a date.
Strptime(s) == IF s = <<Tok("dt")>> THEN Some(NaiveInstant) ELSE Nothing

\* The offset of the fragment wins over the one of the date part.
FragmentOffsetFirst(fromDate, fromFrag) == IF Truthy(fromFrag) THEN fromFrag ELSE fromDate

\* Date.from_datestring
FromDatestring(s) ==
    LET date0 == DatePart(s)
        sub0 == SubsecPart(s)
        dateHas == LastOffset(date0) # 0
        subHas == LastOffset(sub0) # 0
        offDate == IF dateHas THEN ParseOffset(OffsetPart(date0)) ELSE Nothing
        offset == IF subHas
                  THEN FragmentOffsetFirst(offDate, ParseOffset(OffsetPart(sub0)))
                  ELSE offDate
        parsed == Strptime(IF dateHas THEN WithoutOffset(date0) ELSE date0)
    IN [kind |-> "dict",
        date |-> IF Truthy(parsed) /\ Truthy(offset)
                 THEN Some(parsed.v - offset.v) ELSE parsed,
        subseconds |-> IF subHas THEN WithoutOffset(sub0) ELSE sub0,
        offset |-> offset]

\* The result when no string was chosen, and Python's None.
UnknownDate == [kind |-> "dict", date |-> Nothing, subseconds |-> <<>>, offset |-> Nothing]
PyNone == [kind |-> "none", date |-> Nothing, subseconds |-> <<>>, offset |-> Nothing]

\* exif[key].startswith('0000')
StartsWithZeros(text) == text # <<>> /\ text[1].t = "zero"

\* The key loop of from_exif: the first field that is a string and does not
\* start with 0000.
RECURSIVE ChosenString(_, _)
ChosenString(exif, keys) ==
    IF keys = <<>> THEN <<>>
    ELSE LET v == exif[Head(keys)] IN
         IF v.kind = "str" /\ ~StartsWithZeros(v.text) THEN v.text
         ELSE ChosenString(exif, Tail(keys))

\* The timezone loop of from_exif: the first field whose offset is true.
RECURSIVE TimezoneOffset(_, _)
TimezoneOffset(exif, keys) ==
    IF keys = <<>> THEN Nothing
    ELSE LET v == exif[Head(keys)]
             offset == IF v.kind = "str" /\ v.text # <<>> THEN ParseOffset(v.text)
                       ELSE Nothing
         IN IF Truthy(offset) THEN offset ELSE TimezoneOffset(exif, Tail(keys))

\* parsed_date.get('date') is not None and parsed_date.get('offset') is None
NeedsTimezone(parsed) == parsed.date.has /\ ~parsed.offset.has

\* Date.from_filename and from_timestamp. FileNameInstant and FileTimeInstant
\* are the instants in the name and in the modification time of the file.
FileNameInstant == 700
FileTimeInstant == 800
\* The modification time consulted before the file name.
FromFilename_TimestampFirst(name, timestamp) ==
    IF timestamp THEN [UnknownDate EXCEPT !.date = Some(FileTimeInstant)]
    ELSE IF name = "match" THEN [UnknownDate EXCEPT !.date = Some(FileNameInstant)]
    ELSE PyNone

\* A name that matches with digits that are no calendar date makes build raise
\* ValueError, which leaves date = None as for a name that does not match.
FromFilename(name, timestamp) ==
    IF name = "match" THEN [UnknownDate EXCEPT !.date = Some(FileNameInstant)]
    ELSE IF timestamp THEN [UnknownDate EXCEPT !.date = Some(FileTimeInstant)]
    ELSE PyNone

DateOff ==
    /\ dExif = <<>>
    /\ dName = "off"
    /\ dTimestamp = FALSE
    /\ dPc = "off"
    /\ dParsed = <<>>
    /\ dResult = <<>>

DateInit ==
    /\ dExif \in Records
    /\ dName \in {"absent", "nomatch", "invalid", "match"}
    /\ dTimestamp \in BOOLEAN
    /\ dPc = "select"
    /\ dParsed = UnknownDate
    /\ dResult = PyNone

\* from_exif, the key loop and the parse of the chosen string.
Date_Select ==
    /\ dPc = "select"
    /\ dParsed' = IF ChosenString(dExif, Keys) # <<>>
                  THEN FromDatestring(ChosenString(dExif, Keys))
                  ELSE UnknownDate
    /\ dPc' = "timezone"
    /\ UNCHANGED <<dExif, dName, dTimestamp, dResult>>
    /\ UNCHANGED <<sessionVars, quoteVars, runVars, namingVars, extraVars>>

\* from_exif, the timezone fields.
Date_Timezone ==
    /\ dPc = "timezone"
    /\ dParsed' = IF NeedsTimezone(dParsed) /\ Truthy(TimezoneOffset(dExif, TzKeys))
                  THEN [dParsed EXCEPT
                          !.date = Some(dParsed.date.v - TimezoneOffset(dExif, TzKeys).v),
                          !.offset = TimezoneOffset(dExif, TzKeys)]
                  ELSE dParsed
    /\ dPc' = "return"
    /\ UNCHANGED <<dExif, dName, dTimestamp, dResult>>
    /\ UNCHANGED <<sessionVars, quoteVars, runVars, namingVars, extraVars>>

\* from_exif, the return: the parsed date, the date of the file name, or the
\* parsed date without its offset.
Date_Return ==
    /\ dPc = "return"
    /\ dResult' = IF dParsed.date.has THEN dParsed
                  ELSE IF dName # "absent" THEN FromFilename(dName, dTimestamp)
                  ELSE [dParsed EXCEPT !.offset = Nothing]
    /\ dPc' = "done"
    /\ UNCHANGED <<dExif, dName, dTimestamp, dParsed>>
    /\ UNCHANGED <<sessionVars, quoteVars, runVars, namingVars, extraVars>>

DateNext == Date_Select \/ Date_Timezone \/ Date_Return

(***************************************************************************)
(* Part VI: the one session of the process (_get_persistent_session)       *)
(*                                                                         *)
(* Each thread calls _get_persistent_session up to MaxCalls times. The     *)
(* instances are numbered in the order of their construction.              *)
(***************************************************************************)

\* _persistent_session = None
NoSession == 0

SingletonOff ==
    /\ gSession = NoSession
    /\ gLock = NoThread
    /\ gCreated = 0
    /\ gThread = <<>>

SingletonInit ==
    /\ gSession = NoSession
    /\ gLock = NoThread
    /\ gCreated = 0
    /\ gThread = [t \in Threads |->
                    [pc |-> "idle", calls |-> 0, new |-> NoSession, got |-> NoSession]]

\* A thread enters _get_persistent_session.
Get_Call(t) ==
    /\ gThread[t].pc = "idle"
    /\ gThread[t].calls < MaxCalls
    /\ gThread' = [gThread EXCEPT ![t].pc = "check", ![t].calls = @ + 1,
                                  ![t].new = NoSession]
    /\ UNCHANGED <<gSession, gLock, gCreated>>
    /\ UNCHANGED <<sessionVars, quoteVars, runVars, namingVars, dateVars, companionVars>>

\* if _persistent_session is not None: return _persistent_session
Get_FirstCheck(t) ==
    /\ gThread[t].pc = "check"
    /\ gThread' = [gThread EXCEPT ![t].pc =
                      IF gSession # NoSession THEN "return" ELSE "acquire"]
    /\ UNCHANGED <<gSession, gLock, gCreated>>
    /\ UNCHANGED <<sessionVars, quoteVars, runVars, namingVars, dateVars, companionVars>>

\* with _session_lock:
Get_Acquire(t) ==
    /\ gThread[t].pc = "acquire"
    /\ gLock = NoThread
    /\ gLock' = t
    /\ gThread' = [gThread EXCEPT ![t].pc = "recheck"]
    /\ UNCHANGED <<gSession, gCreated>>
    /\ UNCHANGED <<sessionVars, quoteVars, runVars, namingVars, dateVars, companionVars>>

\* The session is constructed without a second look at the global.
Get_SecondCheck_Unchecked(t) ==
    /\ gThread[t].pc = "recheck"
    /\ gThread' = [gThread EXCEPT ![t].pc = "construct"]
    /\ UNCHANGED <<gSession, gLock, gCreated>>
    /\ UNCHANGED <<sessionVars, quoteVars, runVars, namingVars, dateVars, companionVars>>

\* if _persistent_session is None: (under the lock)
Get_SecondCheck(t) ==
    /\ gThread[t].pc = "recheck"
    /\ gThread' = [gThread EXCEPT ![t].pc =
                      IF gSession = NoSession THEN "construct" ELSE "release"]
    /\ UNCHANGED <<gSession, gLock, gCreated>>
    /\ UNCHANGED <<sessionVars, quoteVars, runVars, namingVars, dateVars, companionVars>>

\* _ExiftoolSession(): the object is built (Popen runs) before it is stored.
Get_Construct(t) ==
    /\ gThread[t].pc = "construct"
    /\ gCreated' = gCreated + 1
    /\ gThread' = [gThread EXCEPT ![t].pc = "store", ![t].new = gCreated + 1]
    /\ UNCHANGED <<gSession, gLock>>
    /\ UNCHANGED <<sessionVars, quoteVars, runVars, namingVars, dateVars, companionVars>>

\* _persistent_session = <the new object>
Get_Store(t) ==
    /\ gThread[t].pc = "store"
    /\ gSession' = gThread[t].new
    /\ gThread' = [gThread EXCEPT ![t].pc = "release"]
    /\ UNCHANGED <<gLock, gCreated>>
    /\ UNCHANGED <<sessionVars, quoteVars, runVars, namingVars, dateVars, companionVars>>

\* The with block is left.
Get_Release(t) ==
    /\ gThread[t].pc = "release"
    /\ gLock' = NoThread
    /\ gThread' = [gThread EXCEPT ![t].pc = "return"]
    /\ UNCHANGED <<gSession, gCreated>>
    /\ UNCHANGED <<sessionVars, quoteVars, runVars, namingVars, dateVars, companionVars>>

\* return _persistent_session
Get_Return(t) ==
    /\ gThread[t].pc = "return"
    /\ gThread' = [gThread EXCEPT ![t].pc = "idle", ![t].got = gSession]
    /\ UNCHANGED <<gSession, gLock, gCreated>>
    /\ UNCHANGED <<sessionVars, quoteVars, runVars, namingVars, dateVars, companionVars>>

GetPersistentSession(t) ==
    \/ Get_Call(t)
    \/ Get_FirstCheck(t)
    \/ Get_Acquire(t)
    \/ Get_SecondCheck(t)
    \/ Get_Construct(t)
    \/ Get_Store(t)
    \/ Get_Release(t)
    \/ Get_Return(t)

SingletonNext == \E t \in Threads : GetPersistentSession(t)

(***************************************************************************)
(* Part VII: a primary file and its companions (process_file,              *)
(* process_sidecars, _transfer_companion)                                  *)
(*                                                                         *)
(* A file name is the sequence of its parts: the stem, then each extension *)
(* with its dot; the disambiguation suffix "-2" is a part of its own. The  *)
(* input directory holds a.jpg and any of a.jpg.xmp, a.xmp, a.aae, a.mov.  *)
(* The date of a.jpg gives the name n in the directory "dated".            *)
(***************************************************************************)

\* files.sort(): the names of the model in the order of the walk.
WalkSorted ==
    << <<"a", ".aae">>, <<"a", ".jpg">>, <<"a", ".jpg", ".xmp">>, <<"a", ".mov">>,
       <<"a", ".xmp">> >>
PrimaryName == <<"a", ".jpg">>
CompanionNames == {WalkSorted[i] : i \in 1..Len(WalkSorted)} \ {PrimaryName}

\* os.path.splitext
Splitext(name) ==
    IF Len(name) > 1
    THEN [root |-> SubSeq(name, 1, Len(name) - 1), ext |-> <<name[Len(name)]>>]
    ELSE [root |-> name, ext |-> <<>>]

\* The extensions of MEDIA_EXTENSIONS that the model uses, PAIRED_VIDEO_MAP
\* and SIDECAR_EXTENSIONS in its order.
MediaExts == {".jpg", ".mov", ".mp4"}
PAIRED_VIDEO_MAP(ext) == IF ext = <<".jpg">> THEN <<".mov", ".mp4">> ELSE <<>>
SidecarExts == <<".xmp", ".aae", ".json">>

\* f'-{suffix}' if suffix > 1 else ''
SuffixTexts == <<"-1", "-2", "-3", "-4", "-5", "-6">>
SuffixStr(k) == IF k > 1 THEN <<SuffixTexts[k]>> ELSE <<>>

\* Whether exiftool and Date give the file a date: a.jpg has one, a.mov has
\* one (the same) or none, a file that is gone has none.
HasDate(o, name, present) ==
    /\ present
    /\ Len(name) = 2
    /\ name[2] \in MediaExts
    /\ name[2] = ".mov" => o.mov_dated

\* get_file_name_and_path: output and target_file_name.
PrimaryTarget(o, name, present) ==
    IF HasDate(o, name, present)
    THEN [output |-> "dated", name |-> <<"n", name[2]>>]
    ELSE [output |-> "unknown", name |-> name]

\* target_file: target_file_path for suffix 1, else
\* f'{target_split[0]}-{suffix}{target_split[1]}'
TargetFile(name, k) == Splitext(name).root \o SuffixStr(k) \o Splitext(name).ext

\* process_sidecars: the (original, target) pairs in the order the code goes
\* through them: the two .xmp placements, SIDECAR_EXTENSIONS, the paired
\* videos of the extension.
SidecarCandidates(original, file_name, k) ==
    LET base == Splitext(original).root
        dest == Splitext(file_name).root
        sfx == SuffixStr(k)
        paired == PAIRED_VIDEO_MAP(Splitext(original).ext)
    IN << <<original \o <<".xmp">>, file_name \o sfx \o <<".xmp">> >>,
          <<base \o <<".xmp">>, dest \o sfx \o <<".xmp">> >> >>
       \o [i \in 1..Len(SidecarExts) |->
             <<base \o <<SidecarExts[i]>>, dest \o sfx \o <<SidecarExts[i]>> >>]
       \o [i \in 1..Len(paired) |->
             <<base \o <<paired[i]>>, dest \o sfx \o <<paired[i]>> >>]

\* os.path.isfile / os.path.exists on a path of the output tree.
InOutput(out, dir, name) == \E e \in out : e.dir = dir /\ e.name = name
OutputFile(dir, name, origin) == [dir |-> dir, name |-> name, origin |-> origin]

\* The output trees of the model: empty; n.jpg taken by another picture; and
\* that with n-2.xmp there as well.
OutputTrees ==
    {{},
     {OutputFile("dated", <<"n", ".jpg">>, <<"other">>)},
     {OutputFile("dated", <<"n", ".jpg">>, <<"other">>),
      OutputFile("dated", <<"n", "-2", ".xmp">>, <<"other">>)}}

NoFile == [file |-> <<>>, output |-> "", name |-> <<>>, suffix |-> 1, cands |-> <<>>]

CompanionOff ==
    /\ cOpt = <<>>
    /\ cIn = {}
    /\ cOut = {}
    /\ cQueue = <<>>
    /\ cPc = "off"
    /\ cCur = <<>>
    /\ cLog = {}

CompanionInit ==
    /\ cOpt \in [move : BOOLEAN, link : BOOLEAN, dry_run : BOOLEAN, mov_dated : BOOLEAN]
    /\ \E present \in SUBSET CompanionNames :
        /\ cIn = present \cup {PrimaryName}
        /\ cQueue = SelectSeq(WalkSorted, LAMBDA n : n \in present \cup {PrimaryName})
    /\ cOut \in OutputTrees
    /\ cPc = "idle"
    /\ cCur = NoFile
    /\ cLog = {}

\* One transfer: the file is in the output tree, and gone from the input
\* under move.
Transferred(src, dir, name, role) ==
    /\ cOut' = cOut \cup {OutputFile(dir, name, src)}
    /\ cIn' = IF cOpt.move THEN cIn \ {src} ELSE cIn
    /\ cLog' = cLog \cup {[src |-> src, dir |-> dir, name |-> name, role |-> role,
                            of |-> cCur.file,
                            primary |-> TargetFile(cCur.name, cCur.suffix)]}

\* walk_directory hands the next name to process_file: the .xmp test,
\* get_file_name_and_path, suffix = 1.
Comp_Start ==
    /\ cPc = "idle"
    /\ cQueue # <<>>
    /\ cQueue' = Tail(cQueue)
    /\ LET f == Head(cQueue) IN
       IF f[Len(f)] = ".xmp"
       THEN UNCHANGED <<cPc, cCur>>
       ELSE /\ cCur' = [file |-> f,
                        output |-> PrimaryTarget(cOpt, f, f \in cIn).output,
                        name |-> PrimaryTarget(cOpt, f, f \in cIn).name,
                        suffix |-> 1, cands |-> <<>>]
            /\ cPc' = "loop"
    /\ UNCHANGED <<cOpt, cIn, cOut, cLog>>
    /\ UNCHANGED <<sessionVars, quoteVars, runVars, namingVars, dateVars, singletonVars>>

\* The while loop: a target that is a copy of this file is a duplicate (same
\* size and st_mtime), any other occupant sends the loop to the next suffix.
Comp_Loop ==
    /\ cPc = "loop"
    /\ LET t == TargetFile(cCur.name, cCur.suffix) IN
       IF ~InOutput(cOut, cCur.output, t)
       THEN /\ cPc' = "transfer"
            /\ UNCHANGED cCur
       ELSE IF cCur.file \notin cIn
       THEN /\ cPc' = "idle"
            /\ UNCHANGED cCur
       ELSE IF OutputFile(cCur.output, t, cCur.file) \in cOut
       THEN /\ cPc' = "idle"
            /\ UNCHANGED cCur
       ELSE /\ cCur' = [cCur EXCEPT !.suffix = @ + 1]
            /\ UNCHANGED cPc
    /\ UNCHANGED <<cOpt, cIn, cOut, cQueue, cLog>>
    /\ UNCHANGED <<sessionVars, quoteVars, runVars, namingVars, dateVars, singletonVars>>

\* The else branch of os.path.isfile(target_file): move, link or copy, nothing
\* in a dry run; FileNotFoundError of move and copy is caught and breaks.
\* Then process_sidecars is called.
Comp_Transfer ==
    /\ cPc = "transfer"
    /\ LET t == TargetFile(cCur.name, cCur.suffix) IN
       IF cOpt.dry_run
       THEN /\ cPc' = "sidecars"
            /\ cCur' = [cCur EXCEPT
                          !.cands = SidecarCandidates(cCur.file, cCur.name, cCur.suffix)]
            /\ UNCHANGED <<cIn, cOut, cLog>>
       ELSE IF cCur.file \notin cIn
       THEN /\ cPc' = IF ~cOpt.move /\ cOpt.link THEN "raised" ELSE "idle"
            /\ UNCHANGED <<cCur, cIn, cOut, cLog>>
       ELSE /\ Transferred(cCur.file, cCur.output, t, "primary")
            /\ cPc' = "sidecars"
            /\ cCur' = [cCur EXCEPT
                          !.cands = SidecarCandidates(cCur.file, cCur.name, cCur.suffix)]
    /\ UNCHANGED <<cOpt, cQueue>>
    /\ UNCHANGED <<sessionVars, quoteVars, runVars, namingVars, dateVars, singletonVars>>

\* process_sidecars and _transfer_companion: the companion is transferred when
\* os.path.isfile(original), this is no dry run and the target does not exist.
TransferCompanionNow(original, target) ==
    /\ original \in cIn
    /\ ~cOpt.dry_run
    /\ ~InOutput(cOut, cCur.output, target)

\* process_sidecars, one candidate.
Comp_Sidecar ==
    /\ cPc = "sidecars"
    /\ cCur.cands # <<>>
    /\ LET original == Head(cCur.cands)[1]
           target == Head(cCur.cands)[2]
       IN IF TransferCompanionNow(original, target)
          THEN Transferred(original, cCur.output, target, "companion")
          ELSE UNCHANGED <<cIn, cOut, cLog>>
    /\ cCur' = [cCur EXCEPT !.cands = Tail(@)]
    /\ UNCHANGED <<cOpt, cQueue, cPc>>
    /\ UNCHANGED <<sessionVars, quoteVars, runVars, namingVars, dateVars, singletonVars>>

\* process_sidecars returns; break; files_processed += 1.
Comp_Done ==
    /\ cPc = "sidecars"
    /\ cCur.cands = <<>>
    /\ cPc' = "idle"
    /\ UNCHANGED <<cOpt, cIn, cOut, cQueue, cCur, cLog>>
    /\ UNCHANGED <<sessionVars, quoteVars, runVars, namingVars, dateVars, singletonVars>>

CompanionNext == Comp_Start \/ Comp_Loop \/ Comp_Transfer \/ Comp_Sidecar \/ Comp_Done

(***************************************************************************)
(* Specifications                                                          *)
(***************************************************************************)

vars == <<sessionVars, quoteVars, runVars, otherVars>>

\* The parts after part V are not in use.
ExtraOff == SingletonOff /\ CompanionOff

\* No session was created: Popen never ran and no caller exists.
SessionOff ==
    /\ process = "none"
    /\ worker = "dead"
    /\ lock = NoThread
    /\ tokenCtr = 0
    /\ stdin = <<>>
    /\ stdout = <<>>
    /\ wOut = <<>>
    /\ seg = <<>>
    /\ segAt = [t \in Threads |-> <<>>]
    /\ nCalls = 0
    /\ pc = [t \in Threads |-> "off"]
    /\ file = [t \in Threads |-> "F1"]
    /\ token = [t \in Threads |-> 0]
    /\ chunks = [t \in Threads |-> <<>>]
    /\ sawToken = [t \in Threads |-> FALSE]
    /\ deadEarly = [t \in Threads |-> FALSE]
    /\ fetchResult = [t \in Threads |-> None]
    /\ oneShots = [t \in Threads |-> 0]
    /\ fbOutcome = [t \in Threads |-> "-"]
    /\ dataResult = [t \in Threads |-> None]

\* The session with its callers and a worker that may die or hang.
SessionSpecInit == SessionInit /\ QuoteOff /\ RunOff /\ NamingOff /\ DateOff /\ ExtraOff

SessionSpec == SessionSpecInit /\ [][SessionNext]_vars

\* Every runnable thread is scheduled, and a worker that is alive and not hung
\* answers the frames it was sent.
FairSessionSpec ==
    /\ SessionSpec
    /\ \A t \in Threads : WF_vars(ThreadStep(t))
    /\ WF_vars(WorkerProgress)

\* One call of Exif.data for each file name and each neighbouring file.
QuoteSpecInit == QuoteInit /\ SessionOff /\ RunOff /\ NamingOff /\ DateOff /\ ExtraOff

QuoteSpec == QuoteSpecInit /\ [][QuoteNext]_vars

\* A sequential run under every combination of options, in which another
\* program deletes at most MaxVanish input files.
SequentialOptions == {o \in Options : o.max_concurrency = 1}

RunSpecInit ==
    /\ RunInit(SequentialOptions, InputTrees, {{}, {"f1"}}, {0, MaxVanish},
               {"none", "A"}, {TRUE})
    /\ SessionOff
    /\ QuoteOff
    /\ NamingOff
    /\ DateOff /\ ExtraOff

RunSpec == RunSpecInit /\ [][RunNext]_vars

\* A run with two workers in each transfer mode, into an empty output tree.
ConcurrentOptions ==
    {o \in Options : /\ o.max_concurrency = 2
                     /\ ~o.movedel /\ ~o.rmdirs /\ ~o.skip_unknown}

ConcurrentSpecInit ==
    /\ RunInit(ConcurrentOptions, InputTrees, {{}, {"f1"}}, {0, MaxVanish},
               {"empty"}, {FALSE})
    /\ SessionOff
    /\ QuoteOff
    /\ NamingOff
    /\ DateOff /\ ExtraOff

ConcurrentSpec == ConcurrentSpecInit /\ [][RunNext]_vars

\* A dry run at concurrency 1 and at concurrency 2 over the same trees, which
\* no other program touches.
DryRunOptions ==
    {o \in Options : o.dry_run /\ ~o.movedel /\ ~o.rmdirs}

DryRunSpecInit ==
    /\ RunInit(DryRunOptions, InputTrees, {{}, {"f1"}}, {0}, {"none", "A"}, {FALSE})
    /\ SessionOff
    /\ QuoteOff
    /\ NamingOff
    /\ DateOff /\ ExtraOff

DryRunSpec == DryRunSpecInit /\ [][DryRunNext]_vars

\* A real run with one or two workers, taken before executor.map has
\* submitted anything, which no other program disturbs.
InterruptOptions ==
    {o \in Options : ~o.dry_run /\ ~o.movedel /\ ~o.rmdirs /\ ~o.skip_unknown}

InterruptSpecInit ==
    /\ RunInitAt(InterruptOptions, InputTrees, {{}, {"f1"}}, {0}, {"none", "A"},
                 {FALSE}, FALSE)
    /\ SessionOff
    /\ QuoteOff
    /\ NamingOff
    /\ DateOff /\ ExtraOff

InterruptSpec == InterruptSpecInit /\ [][InterruptNext]_vars

\* One file under every configuration of the output path.
NamingSpecInit == NamingInit /\ SessionOff /\ QuoteOff /\ RunOff /\ DateOff /\ ExtraOff

NamingSpec == NamingSpecInit /\ [][NamingNext]_vars

\* One call of from_exif for every record of the model.
DateSpecInit == DateInit /\ SessionOff /\ QuoteOff /\ RunOff /\ NamingOff /\ ExtraOff

DateSpec == DateSpecInit /\ [][DateNext]_vars

\* Threads calling _get_persistent_session in a process that has no session.
SingletonSpecInit ==
    SingletonInit /\ SessionOff /\ QuoteOff /\ RunOff /\ NamingOff /\ DateOff
    /\ CompanionOff

\* One sequential run over a directory that holds a.jpg and some of its
\* companions.
CompanionSpecInit ==
    CompanionInit /\ SessionOff /\ QuoteOff /\ RunOff /\ NamingOff /\ DateOff
    /\ SingletonOff

CompanionSpec == CompanionSpecInit /\ [][CompanionNext]_vars

SingletonSpec == SingletonSpecInit /\ [][SingletonNext]_vars

(***************************************************************************)
(* Properties of the metadata session                                      *)
(***************************************************************************)

InExchange(t) == pc[t] \in {"write", "read"}

C6_DataFallsBackOnce ==
    \A t \in Threads :
        /\ pc[t] = "done" /\ fetchResult[t] # None =>
              dataResult[t] = fetchResult[t] /\ oneShots[t] = 0
        /\ pc[t] \in {"done", "raised"} /\ fetchResult[t] = None => oneShots[t] = 1
        /\ pc[t] = "done" /\ fbOutcome[t] = "record" => dataResult[t] = file[t]
        /\ fbOutcome[t] \in {"exit_nonzero", "undecodable", "unparsable"} =>
              pc[t] = "done" /\ dataResult[t] = None
        /\ oneShots[t] <= 1

\* C6 witness: fetch parsed a reply that was no record, and the one-shot
\* invocation printed text that is no JSON.
C6_Witness ==
    \E t \in Threads :
        /\ pc[t] = "done" /\ sawToken[t] /\ chunks[t] # <<>>
        /\ fetchResult[t] = None /\ oneShots[t] = 1
        /\ fbOutcome[t] = "unparsable" /\ dataResult[t] = None

\* C8: when the worker's stdout closes before the completion token was read,
\* fetch returns absent, whatever it had accumulated.
C8_ClosureYieldsAbsent ==
    \A t \in Threads : ~sawToken[t] => fetchResult[t] = None

\* C9: every call of fetch returns: a caller does not stay in the read loop,
\* nor at the lock, for ever.
C9_FetchReturns ==
    \A t \in Threads :
        (pc[t] \in {"acquire", "write", "read"}) ~> (pc[t] \in {"done", "raised"})

\* C10: once the worker has died, the fetch it left without a token and every
\* later fetch return absent without blocking, and Exif.data is served by the
\* one-shot invocation.
C10_AbsentAfterDeath ==
    \A t \in Threads :
        /\ deadEarly[t] /\ pc[t] \in {"fallback", "done", "raised"} =>
              fetchResult[t] = None
        /\ deadEarly[t] /\ pc[t] \in {"done", "raised"} => oneShots[t] = 1
        /\ worker = "dead" /\ pc[t] = "read" =>
              ENABLED (Fetch_ReadLine(t) \/ Fetch_ReadEOF(t))

(***************************************************************************)
(* Properties of the framing                                               *)
(***************************************************************************)

\* C7: for every existing file, whatever characters its name contains,
\* Exif.data returns the record of that same file.
C7_RecordOfRequestedFile ==
    qPc = "done" => qResult = Abspath(qName)

(***************************************************************************)
(* Properties of the run                                                   *)
(***************************************************************************)

\* C2: at any concurrency level no primary file is transferred onto a path at
\* which a file exists at that moment, and no two input files are relocated to
\* the same destination path.
C2_NoTransferOntoExistingFile ==
    /\ ~clobbered
    /\ \A d \in DestPaths : Cardinality(placed[d]) <= 1

\* C3: when every task of a run has completed, files_processed equals the
\* number of times process_file passed its final increment.
C3_NoLostIncrement ==
    phase = "done" => counters["files_processed"] = passedFinal

\* C4: with dry_run set, under every combination of the other options, the run
\* leaves the filesystem as it found it.
C4_DryRunChangesNothing ==
    opt.dry_run /\ vanished = {} => Filesystem = fsInit

\* C5: when another program deletes a listed input file, process_file does not
\* raise and every other listed file is still processed.
C5_VanishedFileIsSkipped ==
    /\ ~raised
    /\ phase # "aborted"
    /\ phase = "done" => \A f \in Primaries : fsInit[1][f] # Absent => f \in started

\* C11: a source that meets a file at its destination is classified as a
\* duplicate exactly when the two contents are identical: never when the sizes
\* agree and the contents differ, whatever the modification times.
C11_DuplicateIffSameContent ==
    \A w \in Workers :
        vanished = {} =>
            /\ wpc[w] = "duplicate" => wstat[w][1].c = wstat[w][2].c
            /\ wpc[w] = "top" /\ wsuffix[w] > 1 =>
                  srcFs[wfile[w]].c # dstFs[<<wname[w], wsuffix[w] - 1>>].c

\* C12: on a duplicate match the source is deleted exactly when move, movedel
\* and skip_unknown are set and dry_run is not; otherwise it stays as it was;
\* the destination file stays as it was; duplicates_found grows by one.
C12_DeleteOnlyUnderThreeFlags ==
    \A w \in Workers :
        vanished = {} /\ wctr[w] = "duplicates_found" /\ wpc[w] \in {"load", "store", "account"} =>
            /\ (srcFs[wfile[w]] = Absent) <=>
                  (opt.move /\ opt.movedel /\ opt.skip_unknown /\ ~opt.dry_run)
            /\ srcFs[wfile[w]] # Absent => srcFs[wfile[w]] = wstat[w][1]
            /\ dstFs[Target(w)] = wstat[w][2]
            /\ wpc[w] = "account" => counters["duplicates_found"] = wreg[w] + 1
            /\ wpc[w] # "account" => counters["duplicates_found"] < Cardinality(started)

\* C12 witness: under the three flags the source of a duplicate was removed and
\* the duplicate was counted.
C12_Witness ==
    \E w \in Workers :
        /\ vanished = {} /\ wctr[w] = "duplicates_found" /\ wpc[w] = "account"
        /\ opt.move /\ opt.movedel /\ opt.skip_unknown /\ ~opt.dry_run
        /\ srcFs[wfile[w]] = Absent
        /\ counters["duplicates_found"] = 1

\* C13: a dry run computes the same set of (input file, destination path)
\* pairs at concurrency 1 and at concurrency 2, under every scheduling of the
\* workers: the set that follows from the trees and the options alone.
C13_SamePlanAtAnyConcurrency ==
    phase = "done" /\ opt.dry_run /\ vanished = {} => planned = Plan

\* C13 witness: a dry run with two workers ended, having computed two pairs,
\* one of them with a disambiguated name.
C13_Witness ==
    /\ phase = "done" /\ opt.dry_run /\ opt.max_concurrency = 2
    /\ passedFinal = 2
    /\ Cardinality(planned) = 2
    /\ <<"f2", <<"n1", 2>>>> \in planned

(***************************************************************************)
(* Properties of the name and the directory of a file                      *)
(***************************************************************************)

\* The date of the file could not be resolved.
DateUnknown(f) == f.type \notin {"image", "video"} \/ f.date = NoDate

\* C14: with skip_unknown set, under every output prefix, output suffix,
\* no-date directory name and directory format, the unknown-date filter skips
\* a file (unknown_found + 1, no transfer) exactly when its date could not be
\* resolved.
C14_SkippedIffNoDate ==
    nPc # "off" /\ nCfg.skip_unknown =>
        /\ nPc = "skipped" => DateUnknown(nFile) /\ nUnknown = 1
        /\ nPc \in {"transfer", "relocated"} => ~DateUnknown(nFile) /\ nUnknown = 0

\* C15: a file with the extension of a metadata sidecar (.xmp, .aae, .json) is
\* never transferred by process_file as a primary file.
C15_SidecarNeverPrimary ==
    nPc \in {"transfer", "relocated"} => nFile.ext \notin SIDECAR_EXTENSIONS

\* C20: a media file without a date, with skip_unknown off, goes to the
\* no-date directory under its original base name, letter case included,
\* whatever original_filenames is.
C20_UnknownKeepsBaseName ==
    /\ nPc = "relocated"
    /\ nFile.type \in {"image", "video"} /\ nFile.date = NoDate
    /\ ~nCfg.skip_unknown
    => /\ nOut.output = OutputPath(nCfg, nCfg.no_date_dir)
       /\ nOut.name = nFile.stem \o nFile.ext

(***************************************************************************)
(* Properties of the date of a file                                        *)
(***************************************************************************)

\* The minutes that a signed HH:MM or HHMM offset stands for.
Minutes(o) == (IF o.sign = "+" THEN 1 ELSE -1) * (o.hh * 60 + o.mm)

\* The well-formed strings that carry the offset o in one place: after the
\* date and time, or after the sub-second fragment.
WithOneOffset(o) ==
    {MkString("dt", <<o>>, <<>>),
     MkString("dt", <<o>>, <<Tok("dot"), Tok("digit")>>),
     MkString("dt", <<>>, <<Tok("dot"), Tok("digit"), o>>)}

\* C16: for a chosen string with a trailing signed offset, from_exif returns
\* the naive instant minus that offset and records the offset; no timezone
\* field of the record is subtracted in addition, a zero offset included.
C16_EmbeddedOffsetAppliedOnce ==
    dPc = "done" =>
        \A o \in OffsetTokens :
            dExif["CreateDate"] \in {StrValue(x) : x \in WithOneOffset(o)} =>
                /\ dResult.kind = "dict"
                /\ dResult.date = Some(NaiveInstant - Minutes(o))
                /\ dResult.offset = Some(Minutes(o))

\* The value of a timezone field parses as a signed offset.
IsOffset(v) == v.kind = "str" /\ Len(v.text) = 1 /\ v.text[1].t = "off"

\* C17: for a chosen string without an offset whose instant parsed, the offset
\* subtracted is that of the first of OffsetTimeOriginal, OffsetTimeDigitized,
\* TimeZone whose value parses as an offset, +00:00 included; the fields after
\* it are not consulted.
C17_FirstTimezoneFieldWins ==
    /\ dPc = "done"
    /\ dExif["CreateDate"] \in {StrValue(MkString("dt", <<>>, <<>>)),
                                StrValue(MkString("dt", <<>>, <<Tok("dot"), Tok("digit")>>))}
    /\ \E i \in 1..Len(TzKeys) : IsOffset(dExif[TzKeys[i]])
    => LET first == CHOOSE i \in 1..Len(TzKeys) :
                        /\ IsOffset(dExif[TzKeys[i]])
                        /\ \A j \in 1..(i - 1) : ~IsOffset(dExif[TzKeys[j]])
           m == Minutes(dExif[TzKeys[first]].text[1])
       IN /\ dResult.date = Some(NaiveInstant - m)
          /\ dResult.offset = Some(m)

\* C18: when the date part and the sub-second fragment both carry an offset,
\* from_datestring uses the offset of the date part, and both offset texts are
\* stripped.
C18_DatePartOffsetWins ==
    dPc = "timezone" =>
        \A o1, o2 \in OffsetTokens :
            dExif["CreateDate"] =
                StrValue(MkString("dt", <<o1>>, <<Tok("dot"), Tok("digit"), o2>>)) =>
                    /\ dParsed.offset = Some(Minutes(o1))
                    /\ dParsed.date.has
                    /\ dParsed.subseconds = <<Tok("digit")>>

\* No candidate field of the record yields an instant.
NoInstant(exif) ==
    \A i \in 1..Len(Keys) :
        \/ exif[Keys[i]].kind \in {"missing", "int"}
        \/ exif[Keys[i]].text[1].t \in {"zero", "xx"}

\* C19: when no candidate field yields an instant, the file name does not
\* match the date pattern (or there is none) and the timestamp fallback is
\* off, from_exif returns a result with no instant and empty subseconds.
C19_UnknownDateResult ==
    /\ dPc = "done"
    /\ NoInstant(dExif)
    /\ dName \in {"absent", "nomatch"}
    /\ ~dTimestamp
    => /\ dResult.kind = "dict"
       /\ ~dResult.date.has
       /\ dResult.subseconds = <<>>

(***************************************************************************)
(* Properties of the duplicate-resolution loop and of the counters         *)
(***************************************************************************)

\* C21: when process_file relocates a file, every earlier name of the
\* sequence base, base-2, base-3, ... is occupied by a file of other content;
\* in particular, of two input files with the same resolved name and
\* different content, the second is placed at base-2.
C21_FirstFreeName ==
    /\ \A w \in Workers :
        wpc[w] = "sidecars" /\ vanished = {} =>
            \A j \in 1..(wsuffix[w] - 1) :
                /\ dstFs[<<wname[w], j>>] # Absent
                /\ dstFs[<<wname[w], j>>].c # OnDisk(wfile[w]).c
    /\ (/\ phase = "done"
        /\ ~opt.dry_run
        /\ vanished = {}
        /\ started = {"f1", "f2"}
        /\ fsInit[3][<<"n1", 1>>] = Absent)
       => /\ dstFs[<<"n1", 1>>].c = "A"
          /\ dstFs[<<"n1", 2>>].c = "B"

\* The number of primary files that a transfer put in the output tree.
NumPlaced == Cardinality({f \in Primaries : \E d \in DestPaths : f \in placed[d]})

\* C27: after a run that is not a dry run, files_moved is the number of
\* primary files moved and files_copied the number of primary files copied.
C27_CountersMatchTransfers ==
    phase = "done" /\ ~opt.dry_run =>
        /\ counters["files_moved"] = (IF opt.move THEN NumPlaced ELSE 0)
        /\ counters["files_copied"] = (IF ~opt.move /\ ~opt.link THEN NumPlaced ELSE 0)

(***************************************************************************)
(* Properties of the order of the date sources                             *)
(***************************************************************************)

\* C26: for a Date built with a file name, an instant resolved from the
\* metadata is returned as it is; the instant of the file name is returned
\* exactly when the metadata yields none and the name matches; the
\* modification time is returned exactly when the metadata yields none, the
\* name fails (no match, or no calendar date) and timestamp is set, and then
\* with empty subseconds and no offset.
C26_SourcePrecedence ==
    dPc = "done" /\ dName # "absent" =>
        /\ dParsed.date.has => dResult = dParsed
        /\ dResult.date = Some(FileNameInstant)
            <=> ~dParsed.date.has /\ dName = "match"
        /\ dResult.date = Some(FileTimeInstant)
            <=> ~dParsed.date.has /\ dName \in {"nomatch", "invalid"} /\ dTimestamp
        /\ dResult.date = Some(FileTimeInstant)
            => dResult.subseconds = <<>> /\ ~dResult.offset.has

\* C26, its case: the record has a string that does not parse, with a fragment
\* and an offset, the name has no calendar date, and the modification time is
\* returned.
C26_Witness ==
    /\ dPc = "done"
    /\ dExif["CreateDate"] =
           StrValue(MkString("xx", <<>>, <<Tok("dot"), Tok("digit"), OffTok("+", 2, 0, TRUE)>>))
    /\ dName = "invalid"
    /\ dTimestamp
    /\ dResult.date = Some(FileTimeInstant)

(***************************************************************************)
(* Properties of the date window                                           *)
(***************************************************************************)

\* C22: with a from/to window configured, a file with a resolved date is
\* transferred only if from_date 00:00:00 <= instant <= to_date 23:59:59.
C22_RelocatedOnlyInsideWindow ==
    /\ nPc \in {"transfer", "relocated"}
    /\ nFile.date # NoDate
    => /\ nCfg.from_date # NoValue
            => Instant(nFile.date.month, nFile.date.tod) >= Instant(nCfg.from_date[1], "0")
       /\ nCfg.to_date # NoValue
            => Instant(nFile.date.month, nFile.date.tod) <= Instant(nCfg.to_date[1], "9")

(***************************************************************************)
(* Properties of the one session                                           *)
(***************************************************************************)

\* C24: at most one _ExiftoolSession is ever constructed, and every caller
\* of _get_persistent_session, the first ones and the later ones, is returned
\* that one instance.
C24_OneSession ==
    /\ gCreated <= 1
    /\ gSession \in {NoSession, 1}
    /\ \A t \in DOMAIN gThread :
        /\ gThread[t].pc = "idle" /\ gThread[t].calls > 0 => gThread[t].got = 1
        /\ gThread[t].pc = "return" => gSession = 1

\* C24, its case: two threads made their first call together, both found the
\* global unset at the first test, one constructed the session and the other,
\* having waited for the lock, was returned the same instance.
C24_Witness ==
    /\ gCreated = 1
    /\ gThread[1].calls = 1 /\ gThread[1].new = 1 /\ gThread[1].pc = "release"
    /\ gThread[2].calls = 1 /\ gThread[2].pc = "acquire"

(***************************************************************************)
(* Properties of the interrupt                                             *)
(***************************************************************************)

\* C23: after KeyboardInterrupt was caught in walk_directory, no file that had
\* not started is started.
C23_NoStartAfterInterrupt ==
    phase \in {"walk", "done"} /\ walker.caught => started \subseteq walker.before

(***************************************************************************)
(* Properties of the companions                                            *)
(***************************************************************************)

\* The readings of "the companion's own extension": its last extension, or
\* all that follows the stem of the primary's source name.
OwnExtensions(companion, of) ==
    {Splitext(companion).ext,
     SubSeq(companion, Len(Splitext(of).root) + 1, Len(companion))}

\* C25: a companion is transferred only for a primary that was relocated, to
\* the directory of the primary and under the stem of the primary's
\* destination name (disambiguation suffix included) followed by the
\* companion's own extension; and a file that was in the output tree is
\* never replaced.
C25_CompanionBesidePrimary ==
    /\ \A e \in cLog :
        e.role = "companion" =>
            /\ \E p \in cLog :
                   /\ p.role = "primary"
                   /\ p.src = e.of
                   /\ p.name = e.primary
                   /\ p.dir = e.dir
            /\ \E x \in OwnExtensions(e.src, e.of) :
                   e.name = Splitext(e.primary).root \o x
    /\ \A o \in cOut : o.origin = <<"other">> =>
           \A e \in cLog : ~(e.dir = o.dir /\ e.name = o.name)

\* C28: in one run every input file is transferred at most once.
C28_TransferredAtMostOnce ==
    \A f \in CompanionNames \cup {PrimaryName} :
        Cardinality({e \in cLog : e.src = f}) <= 1

====
